---------------------------- MODULE Spec2Model ----------------------------
(***************************************************************************)
(* A state-machine model of the Smart Class Companion views                *)
(* (src/core/views.py) over the tables of src/core/models.py.              *)
(*                                                                         *)
(* Every table is a sequence indexed by the row's primary key: row i of    *)
(* the sequence is the row with id i, and a deleted row leaves NoRow       *)
(* behind (auto-increment keys are not reused).  Each view is one action   *)
(* that takes the request (user, method, url arguments, form data) as      *)
(* parameters, changes the tables as the handler does and records the      *)
(* handler's answer in `response`.                                         *)
(***************************************************************************)
EXTENDS Integers, Sequences, FiniteSets, TLC

VARIABLES
    classes,       \* Class rows        (models.py 39-85)
    enrollments,   \* Enrollment rows   (models.py 88-114)
    lessons,       \* Lesson rows       (models.py 117-147)
    lesson_files,  \* LessonFile rows   (models.py 150-171)
    assignments,   \* Assignment rows   (models.py 174-211)
    submissions,   \* Submission rows   (models.py 214-263)
    questions,     \* Question rows     (models.py 266-295)
    answers,       \* Answer rows       (models.py 298-324)
    users,         \* User rows by username: role and email (models.py 8-36)
    in_flight,     \* requests between their uniqueness test and their insert
    now,           \* the wall clock read by timezone.now()
    response       \* the answer to the last request

tables == <<classes, enrollments, lessons, lesson_files, assignments,
            submissions, questions, answers>>
vars == <<classes, enrollments, lessons, lesson_files, assignments,
          submissions, questions, answers, users, in_flight, now,
          response>>

-----------------------------------------------------------------------------
(* Bounds of the model *)

(* classes in ClassSpec *)
MaxClasses == 2
(* rows of each table in the other specifications *)
MaxRows == 1
(* the clock runs from 0 to MaxTime *)
MaxTime == 2

-----------------------------------------------------------------------------
(* Users and roles *)

(* worker processes serving requests side by side *)
MaxInFlight == 2
Workers == 1..MaxInFlight
Idle == [op |-> "idle", pc |-> "idle", user |-> "", target |-> 0,
         code |-> <<>>]

Teachers == {"t1", "t2"}
Students == {"s1", "s2"}
Users == Teachers \cup Students
Anonymous == "anon"
Requesters == Users \cup {Anonymous}
Methods == {"GET", "POST"}

(* the accounts registered before the first request of a run: teachers
   t1, t2 and students s1, s2, each under an address of their own *)
InitialUsers ==
    [u \in Users |->
        [role |-> IF u \in Teachers THEN "TEACHER" ELSE "STUDENT",
         email |-> u]]

(* request.user.role; AnonymousUser has none *)
role(u) == IF u \in DOMAIN users THEN users[u].role ELSE "NONE"
is_authenticated(u) == u \in DOMAIN users

NoRow == [deleted |-> TRUE]
(* request.POST.get() of an absent key, and a NULL text column *)
NULL == "NULL"
(* a nullable integer: None, or Some(n) *)
None == <<>>
Some(n) == <<n>>

(* Live primary keys of a table *)
Ids(table) == {i \in 1..Len(table) : table[i] # NoRow}

-----------------------------------------------------------------------------
(* Responses *)

Pass == [kind |-> "pass", target |-> "", level |-> "none"]
Render(template) == [kind |-> "render", target |-> template, level |-> "none"]
RenderMsg(template, lvl) == [kind |-> "render", target |-> template, level |-> lvl]
Redirect(to, lvl) == [kind |-> "redirect", target |-> to, level |-> lvl]
Http404 == [kind |-> "not_found", target |-> "", level |-> "none"]
ServerError == [kind |-> "server_error", target |-> "IntegrityError", level |-> "none"]

(* a variant of teacher_required: any logged-in user passes *)
teacher_required_any_role(u) ==
    IF ~is_authenticated(u) THEN Redirect("login", "error") ELSE Pass

(* decorators.py: teacher_required / student_required; Pass lets the view run *)
teacher_required(u) ==
    IF ~is_authenticated(u) THEN Redirect("login", "error")
    ELSE IF role(u) # "TEACHER" THEN Redirect("dashboard", "error")
    ELSE Pass

student_required(u) ==
    IF ~is_authenticated(u) THEN Redirect("login", "error")
    ELSE IF role(u) # "STUDENT" THEN Redirect("dashboard", "error")
    ELSE Pass

(* django.contrib.auth.decorators.login_required as used by views.py *)
login_required(u) ==
    IF ~is_authenticated(u) THEN Redirect("login", "none") ELSE Pass

-----------------------------------------------------------------------------
(* Class codes *)

CodeLen == 6
Charset == {"A","B","C","D","E","F","G","H","I","J","K","L","M",
            "N","O","P","Q","R","S","T","U","V","W","X","Y","Z",
            "0","1","2","3","4","5","6","7","8","9"}

(* a variant of CodeDraws: random.choices called with k=5 *)
CodeDraws_k5 ==
    { <<a, "K", "7", "Q", b>> : a \in {"A", "9"}, b \in {"A", "9"} }

(* Outcomes of random.choices(string.ascii_uppercase + string.digits, k=6)
   that the model draws: a sample of the 36^6 possible ones. *)
CodeDraws ==
    { <<a, "K", "7", "Q", "2", b>> : a \in {"A", "9"}, b \in {"A", "9"} }

(* a variant of ClassCodeExists: the exists() test never finds a class *)
ClassCodeExists_never(code) == FALSE

(* Class.objects.filter(class_code=code).exists() *)
ClassCodeExists(code) == \E i \in Ids(classes) : classes[i].class_code = code

(* The codes generate_class_code can return: the loop redraws until the
   candidate is held by no stored class. *)
generate_class_code(draws) == {code \in draws : ~ClassCodeExists(code)}

Names == {"", "n1", "n2"}
ClassCreateForm_is_valid(name) == name # ""

-----------------------------------------------------------------------------
Init ==
    /\ classes = <<>>
    /\ enrollments = <<>>
    /\ lessons = <<>>
    /\ lesson_files = <<>>
    /\ assignments = <<>>
    /\ submissions = <<>>
    /\ questions = <<>>
    /\ answers = <<>>
    /\ users = InitialUsers
    /\ in_flight = [w \in Workers |-> Idle]
    /\ now = 0
    /\ response = Pass

(* A request that is answered without touching the database *)
Answered(resp) == response' = resp /\ UNCHANGED <<tables, now, users, in_flight>>

-----------------------------------------------------------------------------
(* Registration (views.py 47-84) *)

Roles == {"TEACHER", "STUDENT"}

(* User.objects.create_user(username, email, password, role=role):
   UserManager refuses an empty username *)
create_user(username, email, r) ==
    IF username = "" \/ username = NULL
    THEN Answered(ServerError)
    ELSE /\ users' = [n \in DOMAIN users \cup {username} |->
                        IF n = username THEN [role |-> r, email |-> email]
                        ELSE users[n]]
         /\ response' = Redirect("dashboard", "success")
         /\ UNCHANGED <<tables, now, in_flight>>

(* a variant of register_view: the role typed into the form is not tested *)
register_view_any_role(u, method, username, email, passwords_match, r) ==
    IF is_authenticated(u)
    THEN Answered(Redirect("dashboard", "none"))
    ELSE IF method # "POST"
    THEN Answered(Render("register"))
    ELSE IF ~passwords_match
    THEN Answered(RenderMsg("register", "error"))
    ELSE IF username \in DOMAIN users
    THEN Answered(RenderMsg("register", "error"))
    ELSE IF \E n \in DOMAIN users : users[n].email = email
    THEN Answered(RenderMsg("register", "error"))
    ELSE create_user(username, email, r)

(* register_view: u is the requester, r the value of the role field *)
register_view(u, method, username, email, passwords_match, r) ==
    IF is_authenticated(u)
    THEN Answered(Redirect("dashboard", "none"))
    ELSE IF method # "POST"
    THEN Answered(Render("register"))
    ELSE IF ~passwords_match
    THEN Answered(RenderMsg("register", "error"))
    ELSE IF username \in DOMAIN users
    THEN Answered(RenderMsg("register", "error"))
    ELSE IF \E n \in DOMAIN users : users[n].email = email
    THEN Answered(RenderMsg("register", "error"))
    ELSE IF r \notin Roles
    THEN Answered(RenderMsg("register", "error"))
    ELSE create_user(username, email, r)

-----------------------------------------------------------------------------
(* Class management views *)

(* class_code = models.CharField(..., unique=True): the INSERT is refused *)
class_code_unique_violated(code) ==
    \E i \in Ids(classes) : classes[i].class_code = code

(* Class.save() of a new row: the code is generated, then the row is
   inserted under class_code's unique=True *)
Class_save_new(u, name, code) ==
    IF class_code_unique_violated(code)
    THEN Answered(ServerError)
    ELSE /\ classes' = Append(classes,
                [teacher |-> u, class_code |-> code,
                 is_active |-> TRUE, name |-> name])
         /\ response' = Redirect("class_detail", "success")
         /\ UNCHANGED <<enrollments, lessons, lesson_files, assignments,
                        submissions, questions, answers, now, users,
                        in_flight>>

(* draws: the outcomes random.choices may produce during this request *)
create_class(u, method, name, draws) ==
    IF teacher_required(u) # Pass
    THEN Answered(teacher_required(u))
    ELSE IF method = "POST" /\ ClassCreateForm_is_valid(name)
    THEN \E code \in generate_class_code(draws) : Class_save_new(u, name, code)
    ELSE Answered(Render("create_class"))

(* a variant of OwnedClass: the lookup does not filter on the teacher *)
OwnedClass_any_teacher(u, class_id) == class_id \in Ids(classes)

(* a variant of OwnedClass: archived classes are not found *)
OwnedClass_active_only(u, class_id) ==
    /\ class_id \in Ids(classes)
    /\ classes[class_id].teacher = u
    /\ classes[class_id].is_active

(* get_object_or_404(Class, id=class_id, teacher=request.user) *)
OwnedClass(u, class_id) ==
    class_id \in Ids(classes) /\ classes[class_id].teacher = u

(* a variant of NeedsClassCode: every save draws a new code *)
NeedsClassCode_always(code) == TRUE

(* if not self.class_code *)
NeedsClassCode(code) == code = <<>>

(* Class.save() of a stored row: a code is generated only when the row
   has none *)
Class_save_existing(class_id, row) ==
    IF NeedsClassCode(row.class_code)
    THEN \E fresh \in generate_class_code(CodeDraws) :
            classes' = [classes EXCEPT ![class_id] =
                           [row EXCEPT !.class_code = fresh]]
    ELSE classes' = [classes EXCEPT ![class_id] = row]

(* a variant of edit_class: saving the form also reactivates the class *)
edit_class_reactivating(u, method, class_id, name) ==
    IF teacher_required(u) # Pass
    THEN Answered(teacher_required(u))
    ELSE IF ~OwnedClass(u, class_id)
    THEN Answered(Http404)
    ELSE IF method = "POST" /\ ClassCreateForm_is_valid(name)
    THEN /\ Class_save_existing(class_id,
                [classes[class_id] EXCEPT !.name = name, !.is_active = TRUE])
         /\ response' = Redirect("class_detail", "success")
         /\ UNCHANGED <<enrollments, lessons, lesson_files, assignments,
                        submissions, questions, answers, now, users,
                        in_flight>>
    ELSE Answered(Render("edit_class"))

edit_class(u, method, class_id, name) ==
    IF teacher_required(u) # Pass
    THEN Answered(teacher_required(u))
    ELSE IF ~OwnedClass(u, class_id)
    THEN Answered(Http404)
    ELSE IF method = "POST" /\ ClassCreateForm_is_valid(name)
    THEN /\ Class_save_existing(class_id,
                [classes[class_id] EXCEPT !.name = name])
         /\ response' = Redirect("class_detail", "success")
         /\ UNCHANGED <<enrollments, lessons, lesson_files, assignments,
                        submissions, questions, answers, now, users,
                        in_flight>>
    ELSE Answered(Render("edit_class"))

(* a variant of delete_class: archiving also removes the enrollments *)
delete_class_dropping_enrollments(u, method, class_id) ==
    IF teacher_required(u) # Pass
    THEN Answered(teacher_required(u))
    ELSE IF ~OwnedClass(u, class_id)
    THEN Answered(Http404)
    ELSE IF method = "POST"
    THEN /\ Class_save_existing(class_id,
                [classes[class_id] EXCEPT !.is_active = FALSE])
         /\ enrollments' =
               [e \in 1..Len(enrollments) |->
                   IF enrollments[e] # NoRow
                      /\ enrollments[e].class_enrolled = class_id
                   THEN NoRow ELSE enrollments[e]]
         /\ response' = Redirect("dashboard", "success")
         /\ UNCHANGED <<lessons, lesson_files, assignments,
                        submissions, questions, answers, now, users,
                        in_flight>>
    ELSE Answered(Render("delete_class"))

delete_class(u, method, class_id) ==
    IF teacher_required(u) # Pass
    THEN Answered(teacher_required(u))
    ELSE IF ~OwnedClass(u, class_id)
    THEN Answered(Http404)
    ELSE IF method = "POST"
    THEN /\ Class_save_existing(class_id,
                [classes[class_id] EXCEPT !.is_active = FALSE])
         /\ response' = Redirect("dashboard", "success")
         /\ UNCHANGED <<enrollments, lessons, lesson_files, assignments,
                        submissions, questions, answers, now, users,
                        in_flight>>
    ELSE Answered(Render("delete_class"))

-----------------------------------------------------------------------------
(* Joining a class *)

(* str.upper() on the characters the model types into the join form *)
UpperChar(c) ==
    CASE c = "a" -> "A"
      [] c = "k" -> "K"
      [] c = "q" -> "Q"
      [] OTHER -> c
Upper(s) == [i \in 1..Len(s) |-> UpperChar(s[i])]

JoinFormMaxLength == 10

(* str.strip(): forms.CharField strips the typed value (strip=True is the
   default) before it validates it; int() skips the same blanks *)
RECURSIVE StripLeft(_)
StripLeft(s) == IF s # <<>> /\ Head(s) = " " THEN StripLeft(Tail(s)) ELSE s
RECURSIVE StripRight(_)
StripRight(s) ==
    IF s # <<>> /\ s[Len(s)] = " "
    THEN StripRight(SubSeq(s, 1, Len(s) - 1)) ELSE s
Strip(s) == StripRight(StripLeft(s))

(* form.cleaned_data['class_code'] of a valid form *)
cleaned_class_code(raw) == Upper(Strip(raw))

(* a variant of ActiveClassWithCode: is_active is not part of the lookup *)
ActiveClassWithCode_archived_too(code) ==
    {c \in Ids(classes) : classes[c].class_code = code}

(* Class.objects.get(class_code=code, is_active=True): the matching ids *)
ActiveClassWithCode(code) ==
    {c \in Ids(classes) : classes[c].class_code = code /\ classes[c].is_active}

(* JoinClassForm.is_valid(): CharField(required, max_length=10), then
   clean_class_code *)
JoinClassForm_is_valid(raw) ==
    /\ Strip(raw) # <<>>
    /\ Len(Strip(raw)) <= JoinFormMaxLength
    /\ ActiveClassWithCode(cleaned_class_code(raw)) # {}

(* a variant of EnrollmentExists: only active enrollments are found *)
EnrollmentExists_active_only(u, c) ==
    \E e \in Ids(enrollments) :
        /\ enrollments[e].student = u
        /\ enrollments[e].class_enrolled = c
        /\ enrollments[e].is_active

EnrollmentExists(u, c) ==
    \E e \in Ids(enrollments) :
        enrollments[e].student = u /\ enrollments[e].class_enrolled = c

(* a variant of ActiveEnrollment: is_active is not part of the filter *)
ActiveEnrollment_any(u, c) ==
    \E e \in Ids(enrollments) :
        enrollments[e].student = u /\ enrollments[e].class_enrolled = c

ActiveEnrollment(u, c) ==
    \E e \in Ids(enrollments) :
        /\ enrollments[e].student = u
        /\ enrollments[e].class_enrolled = c
        /\ enrollments[e].is_active

(* a variant of enrollment_unique_violated: the table has no constraint *)
enrollment_unique_violated_never(u, c) == FALSE

(* Enrollment.Meta.unique_together = ['student', 'class_enrolled'] *)
enrollment_unique_violated(u, c) ==
    \E e \in Ids(enrollments) :
        enrollments[e].student = u /\ enrollments[e].class_enrolled = c

(* Enrollment.objects.create(student=..., class_enrolled=...) *)
Enrollment_create(u, c) ==
    IF enrollment_unique_violated(u, c)
    THEN Answered(ServerError)
    ELSE /\ enrollments' = Append(enrollments,
                [student |-> u, class_enrolled |-> c, is_active |-> TRUE])
         /\ response' = Redirect("class_detail", "success")
         /\ UNCHANGED <<classes, lessons, lesson_files, assignments,
                        submissions, questions, answers, now, users,
                        in_flight>>

(* a variant of join_class: the already-enrolled branch switches the
   existing enrollment back on (update_or_create instead of the exists() test) *)
join_class_reactivating(u, method, raw) ==
    IF student_required(u) # Pass
    THEN Answered(student_required(u))
    ELSE IF method = "POST" /\ JoinClassForm_is_valid(raw)
    THEN \E c \in ActiveClassWithCode(cleaned_class_code(raw)) :
            IF EnrollmentExists(u, c)
            THEN /\ enrollments' =
                       [e \in 1..Len(enrollments) |->
                           IF enrollments[e] # NoRow
                              /\ enrollments[e].student = u
                              /\ enrollments[e].class_enrolled = c
                           THEN [enrollments[e] EXCEPT !.is_active = TRUE]
                           ELSE enrollments[e]]
                 /\ response' = Redirect("class_detail", "success")
                 /\ UNCHANGED <<classes, lessons, lesson_files, assignments,
                                submissions, questions, answers, now, users,
                                in_flight>>
            ELSE Enrollment_create(u, c)
    ELSE IF method = "POST"
    THEN Answered(RenderMsg("join_class", "form_error"))
    ELSE Answered(Render("join_class"))

join_class(u, method, raw) ==
    IF student_required(u) # Pass
    THEN Answered(student_required(u))
    ELSE IF method = "POST" /\ JoinClassForm_is_valid(raw)
    THEN \E c \in ActiveClassWithCode(cleaned_class_code(raw)) :
            IF EnrollmentExists(u, c)
            THEN Answered(Redirect("class_detail", "warning"))
            ELSE Enrollment_create(u, c)
    ELSE IF method = "POST"
    THEN Answered(RenderMsg("join_class", "form_error"))
    ELSE Answered(Render("join_class"))

(* EnrollmentAdmin (admin.py): staff edit an enrollment's is_active flag;
   no view of views.py writes it. *)
admin_change_enrollment(e, active) ==
    /\ e \in Ids(enrollments)
    /\ enrollments' = [enrollments EXCEPT ![e].is_active = active]
    /\ response' = Redirect("admin", "success")
    /\ UNCHANGED <<classes, lessons, lesson_files, assignments,
                   submissions, questions, answers, now, users, in_flight>>

(* class_detail: the page of an active class, for its teacher and for the
   actively enrolled; every role but TEACHER takes the student branch *)
class_detail(u, class_id) ==
    IF login_required(u) # Pass
    THEN Answered(login_required(u))
    ELSE IF ~(class_id \in Ids(classes) /\ classes[class_id].is_active)
    THEN Answered(Http404)
    ELSE IF role(u) = "TEACHER" /\ classes[class_id].teacher # u
    THEN Answered(Redirect("dashboard", "error"))
    ELSE IF role(u) # "TEACHER" /\ ~ActiveEnrollment(u, class_id)
    THEN Answered(Redirect("dashboard", "error"))
    ELSE Answered(Render("class_detail"))

-----------------------------------------------------------------------------
(* Uploaded files and their validators (validators.py) *)

(* An upload is [name |-> <<stem, ext>>, size |-> bytes];
   os.path.splitext(name) is the pair itself. *)
NoFile == [missing |-> TRUE]
splitext(name) == name

(* str.lower(), character by character; an extension is the sequence of
   its characters, the dot included, and <<>> when the name has none *)
LowerChar(c) ==
    CASE c = "A" -> "a"
      [] c = "B" -> "b"
      [] c = "C" -> "c"
      [] c = "D" -> "d"
      [] c = "E" -> "e"
      [] c = "F" -> "f"
      [] c = "G" -> "g"
      [] c = "H" -> "h"
      [] c = "I" -> "i"
      [] c = "J" -> "j"
      [] c = "K" -> "k"
      [] c = "L" -> "l"
      [] c = "M" -> "m"
      [] c = "N" -> "n"
      [] c = "O" -> "o"
      [] c = "P" -> "p"
      [] c = "Q" -> "q"
      [] c = "R" -> "r"
      [] c = "S" -> "s"
      [] c = "T" -> "t"
      [] c = "U" -> "u"
      [] c = "V" -> "v"
      [] c = "W" -> "w"
      [] c = "X" -> "x"
      [] c = "Y" -> "y"
      [] c = "Z" -> "z"
      [] OTHER -> c

LowerExt(ext) == [i \in 1..Len(ext) |-> LowerChar(ext[i])]

valid_extensions ==
    { <<".", "p", "d", "f">>,
      <<".", "d", "o", "c">>,
      <<".", "d", "o", "c", "x">>,
      <<".", "p", "p", "t">>,
      <<".", "p", "p", "t", "x">>,
      <<".", "t", "x", "t">>,
      <<".", "z", "i", "p">>,
      <<".", "j", "p", "g">>,
      <<".", "j", "p", "e", "g">>,
      <<".", "p", "n", "g">> }

(* TRUE when the validator raises no ValidationError *)
validate_file_extension(f) == LowerExt(splitext(f.name)[2]) \in valid_extensions

FileSizeLimit == 10 * 1024 * 1024
(* a variant of validate_file_size: a file of exactly the limit is refused *)
validate_file_size_exclusive(f) == f.size < FileSizeLimit

validate_file_size(f) == ~(f.size > FileSizeLimit)

GoodFile == [name |-> <<"hw", <<".", "p", "d", "f">>>>, size |-> 1]
BadFile == [name |-> <<"hw", <<".", "e", "x", "e">>>>, size |-> 1]

-----------------------------------------------------------------------------
(* Lesson management views *)

Texts == {"", "x", "y"}

(* LessonForm.is_valid(): title and description are required *)
LessonForm_is_valid(title) == title # ""

(* the file loop of create_lesson / edit_lesson: file_errors *)
(* a variant of file_errors: the loop stops after the first file *)
file_errors_first_only(files) ==
    /\ files # <<>>
    /\ ~(validate_file_extension(files[1]) /\ validate_file_size(files[1]))

file_errors(files) ==
    \E i \in 1..Len(files) :
        ~(validate_file_extension(files[i]) /\ validate_file_size(files[i]))

NewLessonFiles(lesson_id, files) ==
    [i \in 1..Len(files) |->
        [lesson |-> lesson_id, file_name |-> files[i].name,
         file_size |-> files[i].size]]

create_lesson(u, method, class_id, title, published, files) ==
    IF teacher_required(u) # Pass
    THEN Answered(teacher_required(u))
    ELSE IF ~OwnedClass(u, class_id)
    THEN Answered(Http404)
    ELSE IF method = "POST" /\ LessonForm_is_valid(title) /\ ~file_errors(files)
    THEN /\ lessons' = Append(lessons,
                [class_lesson |-> class_id, title |-> title,
                 is_published |-> published])
         /\ lesson_files' = lesson_files \o NewLessonFiles(Len(lessons) + 1, files)
         /\ response' = Redirect("class_detail", "success")
         /\ UNCHANGED <<classes, enrollments, assignments, submissions,
                        questions, answers, now, users, in_flight>>
    ELSE Answered(Render("create_lesson"))

(* lesson.class_lesson.teacher != request.user *)
(* a variant of OwnsLesson: the teacher of the class is not compared *)
OwnsLesson_anyone(u, lesson_id) == TRUE

OwnsLesson(u, lesson_id) == classes[lessons[lesson_id].class_lesson].teacher = u

edit_lesson(u, method, lesson_id, title, published, files) ==
    IF teacher_required(u) # Pass
    THEN Answered(teacher_required(u))
    ELSE IF lesson_id \notin Ids(lessons)
    THEN Answered(Http404)
    ELSE IF ~OwnsLesson(u, lesson_id)
    THEN Answered(Redirect("dashboard", "error"))
    ELSE IF method = "POST" /\ LessonForm_is_valid(title) /\ ~file_errors(files)
    THEN /\ lessons' = [lessons EXCEPT ![lesson_id].title = title,
                                       ![lesson_id].is_published = published]
         /\ lesson_files' = lesson_files \o NewLessonFiles(lesson_id, files)
         /\ response' = Redirect("lesson_detail", "success")
         /\ UNCHANGED <<classes, enrollments, assignments, submissions,
                        questions, answers, now, users, in_flight>>
    ELSE Answered(Render("edit_lesson"))

(* on_delete=CASCADE from Lesson: its files, its questions, their answers *)
CascadeFiles(lesson_id) ==
    [i \in 1..Len(lesson_files) |->
        IF lesson_files[i] # NoRow /\ lesson_files[i].lesson = lesson_id
        THEN NoRow ELSE lesson_files[i]]

CascadeQuestions(lesson_id) ==
    [i \in 1..Len(questions) |->
        IF questions[i] # NoRow /\ questions[i].lesson = lesson_id
        THEN NoRow ELSE questions[i]]

(* a variant of CascadeAnswers: the answers are left in place *)
CascadeAnswers_none(lesson_id) == answers

CascadeAnswers(lesson_id) ==
    [i \in 1..Len(answers) |->
        IF answers[i] # NoRow
           /\ questions[answers[i].question].lesson = lesson_id
        THEN NoRow ELSE answers[i]]

delete_lesson(u, method, lesson_id) ==
    IF teacher_required(u) # Pass
    THEN Answered(teacher_required(u))
    ELSE IF lesson_id \notin Ids(lessons)
    THEN Answered(Http404)
    ELSE IF ~OwnsLesson(u, lesson_id)
    THEN Answered(Redirect("dashboard", "error"))
    ELSE IF method = "POST"
    THEN /\ lessons' = [lessons EXCEPT ![lesson_id] = NoRow]
         /\ lesson_files' = CascadeFiles(lesson_id)
         /\ questions' = CascadeQuestions(lesson_id)
         /\ answers' = CascadeAnswers(lesson_id)
         /\ response' = Redirect("class_detail", "success")
         /\ UNCHANGED <<classes, enrollments, assignments, submissions, now, users,
                        in_flight>>
    ELSE Answered(Render("delete_lesson"))

(* file.lesson.class_lesson.teacher != request.user *)
OwnsLessonFile(u, file_id) == OwnsLesson(u, lesson_files[file_id].lesson)

(* no request.method test: any method deletes *)
delete_lesson_file(u, method, file_id) ==
    IF teacher_required(u) # Pass
    THEN Answered(teacher_required(u))
    ELSE IF file_id \notin Ids(lesson_files)
    THEN Answered(Http404)
    ELSE IF ~OwnsLessonFile(u, file_id)
    THEN Answered(Redirect("dashboard", "error"))
    ELSE /\ lesson_files' = [lesson_files EXCEPT ![file_id] = NoRow]
         /\ response' = Redirect("edit_lesson", "success")
         /\ UNCHANGED <<classes, enrollments, lessons, assignments,
                        submissions, questions, answers, now, users,
                        in_flight>>

-----------------------------------------------------------------------------
(* Questions and answers *)

QuestionForm_is_valid(text) == text # ""
AnswerForm_is_valid(text) == text # ""

(* lesson_detail: shows a published lesson; a student's POST asks a question *)
lesson_detail(u, method, lesson_id, text) ==
    IF login_required(u) # Pass
    THEN Answered(login_required(u))
    ELSE IF ~(lesson_id \in Ids(lessons) /\ lessons[lesson_id].is_published)
    THEN Answered(Http404)
    ELSE IF role(u) = "TEACHER" /\ ~OwnsLesson(u, lesson_id)
    THEN Answered(Redirect("dashboard", "error"))
    ELSE IF role(u) = "STUDENT"
            /\ ~ActiveEnrollment(u, lessons[lesson_id].class_lesson)
    THEN Answered(Redirect("dashboard", "error"))
    ELSE IF role(u) = "STUDENT" /\ method = "POST" /\ QuestionForm_is_valid(text)
    THEN /\ questions' = Append(questions,
                [lesson |-> lesson_id, student |-> u, question_text |-> text])
         /\ response' = Redirect("lesson_detail", "success")
         /\ UNCHANGED <<classes, enrollments, lessons, lesson_files,
                        assignments, submissions, answers, now, users,
                        in_flight>>
    ELSE Answered(Render("lesson_detail"))

(* question.lesson.class_lesson.teacher != request.user *)
OwnsQuestion(u, question_id) == OwnsLesson(u, questions[question_id].lesson)

(* a variant of is_answered: the view does not look for an answer *)
is_answered_never(question_id) == FALSE

(* hasattr(question, 'answer') *)
is_answered(question_id) ==
    \E a \in Ids(answers) : answers[a].question = question_id

(* Answer.question is a OneToOneField: unique *)
answer_unique_violated(question_id) ==
    \E a \in Ids(answers) : answers[a].question = question_id

(* answer.save() of a new row *)
Answer_save_new(u, question_id, text) ==
    IF answer_unique_violated(question_id)
    THEN Answered(ServerError)
    ELSE /\ answers' = Append(answers,
                [question |-> question_id, teacher |-> u, answer_text |-> text])
         /\ response' = Redirect("lesson_detail", "success")
         /\ UNCHANGED <<classes, enrollments, lessons, lesson_files,
                        assignments, submissions, questions, now, users,
                        in_flight>>

answer_question(u, method, question_id, text) ==
    IF teacher_required(u) # Pass
    THEN Answered(teacher_required(u))
    ELSE IF question_id \notin Ids(questions)
    THEN Answered(Http404)
    ELSE IF ~OwnsQuestion(u, question_id)
    THEN Answered(Redirect("dashboard", "error"))
    ELSE IF is_answered(question_id)
    THEN Answered(Redirect("lesson_detail", "warning"))
    ELSE IF method = "POST" /\ AnswerForm_is_valid(text)
    THEN Answer_save_new(u, question_id, text)
    ELSE Answered(Render("answer_question"))

-----------------------------------------------------------------------------
(* Assignment management views *)

(* AssignmentForm.is_valid(): title, due_date and max_points are required;
   max_points is any integer (the widget's min=0 is not validated) *)
AssignmentForm_is_valid(title, due, maxp) ==
    title # "" /\ due # None /\ maxp # None

create_assignment(u, method, class_id, title, due, maxp, late, published) ==
    IF teacher_required(u) # Pass
    THEN Answered(teacher_required(u))
    ELSE IF ~OwnedClass(u, class_id)
    THEN Answered(Http404)
    ELSE IF method = "POST" /\ AssignmentForm_is_valid(title, due, maxp)
    THEN /\ assignments' = Append(assignments,
                [class_assignment |-> class_id, title |-> title,
                 due_date |-> due[1], max_points |-> maxp[1],
                 allow_late_submission |-> late, is_published |-> published])
         /\ response' = Redirect("class_detail", "success")
         /\ UNCHANGED <<classes, enrollments, lessons, lesson_files,
                        submissions, questions, answers, now, users,
                        in_flight>>
    ELSE Answered(Render("create_assignment"))

(* assignment.class_assignment.teacher != request.user *)
OwnsAssignment(u, assignment_id) ==
    classes[assignments[assignment_id].class_assignment].teacher = u

edit_assignment(u, method, assignment_id, title, due, maxp, late, published) ==
    IF teacher_required(u) # Pass
    THEN Answered(teacher_required(u))
    ELSE IF assignment_id \notin Ids(assignments)
    THEN Answered(Http404)
    ELSE IF ~OwnsAssignment(u, assignment_id)
    THEN Answered(Redirect("dashboard", "error"))
    ELSE IF method = "POST" /\ AssignmentForm_is_valid(title, due, maxp)
    THEN /\ assignments' = [assignments EXCEPT ![assignment_id] =
                [class_assignment |-> @.class_assignment, title |-> title,
                 due_date |-> due[1], max_points |-> maxp[1],
                 allow_late_submission |-> late, is_published |-> published]]
         /\ response' = Redirect("assignment_detail", "success")
         /\ UNCHANGED <<classes, enrollments, lessons, lesson_files,
                        submissions, questions, answers, now, users,
                        in_flight>>
    ELSE Answered(Render("edit_assignment"))

(* assignment_detail: the page of a published assignment, for the teacher
   of its class and for the actively enrolled *)
assignment_detail(u, assignment_id) ==
    IF login_required(u) # Pass
    THEN Answered(login_required(u))
    ELSE IF ~(/\ assignment_id \in Ids(assignments)
              /\ assignments[assignment_id].is_published)
    THEN Answered(Http404)
    ELSE IF role(u) = "TEACHER" /\ ~OwnsAssignment(u, assignment_id)
    THEN Answered(Redirect("dashboard", "error"))
    ELSE IF role(u) # "TEACHER"
            /\ ~ActiveEnrollment(u, assignments[assignment_id].class_assignment)
    THEN Answered(Redirect("dashboard", "error"))
    ELSE Answered(Render("assignment_detail"))

(* on_delete=CASCADE from Assignment: its submissions *)
CascadeSubmissions(assignment_id) ==
    [i \in 1..Len(submissions) |->
        IF submissions[i] # NoRow /\ submissions[i].assignment = assignment_id
        THEN NoRow ELSE submissions[i]]

delete_assignment(u, method, assignment_id) ==
    IF teacher_required(u) # Pass
    THEN Answered(teacher_required(u))
    ELSE IF assignment_id \notin Ids(assignments)
    THEN Answered(Http404)
    ELSE IF ~OwnsAssignment(u, assignment_id)
    THEN Answered(Redirect("dashboard", "error"))
    ELSE IF method = "POST"
    THEN /\ assignments' = [assignments EXCEPT ![assignment_id] = NoRow]
         /\ submissions' = CascadeSubmissions(assignment_id)
         /\ response' = Redirect("class_detail", "success")
         /\ UNCHANGED <<classes, enrollments, lessons, lesson_files,
                        questions, answers, now, users, in_flight>>
    ELSE Answered(Render("delete_assignment"))

-----------------------------------------------------------------------------
(* Submitting *)

(* the columns of the submissions table: the fields of Submission *)
SubmissionFields ==
    {"assignment", "student", "file", "file_name", "submitted_at", "status",
     "points", "feedback"}

(* Model.save() writes the instance's model fields and nothing else *)
Persist(instance) == [f \in SubmissionFields |-> instance[f]]

(* SubmissionForm.is_valid(): forms.FileField is required, refuses an empty
   upload, then runs validate_file_extension and validate_file_size *)
SubmissionForm_is_valid(f) ==
    /\ f # NoFile
    /\ f.size > 0
    /\ validate_file_extension(f)
    /\ validate_file_size(f)

SubmissionsOf(assignment_id, u) ==
    {s \in Ids(submissions) :
        submissions[s].assignment = assignment_id /\ submissions[s].student = u}

(* Submission.save() lines 257-262: the status of a submission whose
   submitted_at reads t *)
AutoStatus(t, due) == IF t <= due THEN "ON_TIME" ELSE "LATE"

(* a variant of NewSubmission: the view does not set submission.student *)
NewSubmission_no_student(u, assignment_id, f, t1, t2) ==
    [assignment |-> assignment_id, student |-> "", file |-> f.name,
     file_name |-> "", submitted_at |-> t2,
     status |-> AutoStatus(t1, assignments[assignment_id].due_date),
     points |-> None, feedback |-> ""]

(* The row Submission.save() inserts for submit_assignment.  t1 is the clock
   read at line 255, which decides the status; t2 is the clock read by
   auto_now_add's pre_save during super().save(), which is what is stored. *)
NewSubmission(u, assignment_id, f, t1, t2) ==
    [assignment |-> assignment_id, student |-> u, file |-> f.name,
     file_name |-> "", submitted_at |-> t2,
     status |-> AutoStatus(t1, assignments[assignment_id].due_date),
     points |-> None, feedback |-> ""]

(* Submission.Meta.unique_together = ['assignment', 'student'] *)
submission_unique_violated(assignment_id, u) ==
    \E s \in Ids(submissions) :
        submissions[s].assignment = assignment_id /\ submissions[s].student = u

(* submission.save() of a new row; dt is the time that passes between the
   two clock reads *)
Submission_save_new(u, assignment_id, f, dt) ==
    /\ now' = now + dt
    /\ IF submission_unique_violated(assignment_id, u)
       THEN /\ response' = ServerError
            /\ UNCHANGED <<tables, users, in_flight>>
       ELSE /\ submissions' = Append(submissions,
                   Persist(NewSubmission(u, assignment_id, f, now, now + dt)))
            /\ response' = Redirect("assignment_detail", "success")
            /\ UNCHANGED <<classes, enrollments, lessons, lesson_files,
                           assignments, questions, answers, users, in_flight>>

(* a variant of ResubmissionBlocked: the allow_late_submission test is
   inverted *)
ResubmissionBlocked_inverted(u, assignment_id) ==
    /\ SubmissionsOf(assignment_id, u) # {}
    /\ assignments[assignment_id].allow_late_submission

(* existing_submission and not assignment.allow_late_submission *)
ResubmissionBlocked(u, assignment_id) ==
    /\ SubmissionsOf(assignment_id, u) # {}
    /\ ~assignments[assignment_id].allow_late_submission

submit_assignment(u, method, assignment_id, f, dt) ==
    IF student_required(u) # Pass
    THEN Answered(student_required(u))
    ELSE IF ~(assignment_id \in Ids(assignments)
              /\ assignments[assignment_id].is_published)
    THEN Answered(Http404)
    ELSE IF ~ActiveEnrollment(u, assignments[assignment_id].class_assignment)
    THEN Answered(Redirect("dashboard", "error"))
    ELSE IF ResubmissionBlocked(u, assignment_id)
    THEN Answered(Redirect("assignment_detail", "warning"))
    ELSE IF method = "POST" /\ SubmissionForm_is_valid(f)
    THEN Submission_save_new(u, assignment_id, f, dt)
    ELSE Answered(Render("submit_assignment"))

-----------------------------------------------------------------------------
(* Grading *)

Digits == {"0", "1", "2", "3", "4", "5", "6", "7", "8", "9"}
DigitVal(c) ==
    CASE c = "0" -> 0 [] c = "1" -> 1 [] c = "2" -> 2 [] c = "3" -> 3
      [] c = "4" -> 4 [] c = "5" -> 5 [] c = "6" -> 6 [] c = "7" -> 7
      [] c = "8" -> 8 [] c = "9" -> 9

Unsigned(s) == IF s # <<>> /\ Head(s) \in {"+", "-"} THEN Tail(s) ELSE s

(* int(s) raises no ValueError: blanks around, an optional sign, digits *)
IsIntLiteral(s) ==
    /\ Unsigned(Strip(s)) # <<>>
    /\ \A i \in 1..Len(Unsigned(Strip(s))) : Unsigned(Strip(s))[i] \in Digits

RECURSIVE DecimalValue(_)
DecimalValue(ds) ==
    IF ds = <<>> THEN 0
    ELSE 10 * DecimalValue(SubSeq(ds, 1, Len(ds) - 1)) + DigitVal(ds[Len(ds)])

(* int(s) *)
int(s) ==
    IF Head(Strip(s)) = "-"
    THEN 0 - DecimalValue(Unsigned(Strip(s)))
    ELSE DecimalValue(Unsigned(Strip(s)))

(* a variant of PointsInRange: the lower bound is not tested *)
PointsInRange_upper_only(points, max_points) == ~(points > max_points)

(* not (points < 0 or points > max_points) *)
PointsInRange(points, max_points) == ~(points < 0 \/ points > max_points)

(* submission.assignment.class_assignment.teacher != request.user *)
OwnsSubmission(u, submission_id) ==
    OwnsAssignment(u, submissions[submission_id].assignment)

(* The in-memory Submission after lines 699-701: graded_at is set on the
   instance, but Submission declares no such field *)
GradedInstance(row, points, feedback, t) ==
    [f \in SubmissionFields \cup {"graded_at"} |->
        IF f = "points" THEN Some(points)
        ELSE IF f = "feedback" THEN feedback
        ELSE IF f = "graded_at" THEN t
        ELSE row[f]]

(* submission.save() of the graded instance; feedback is NOT NULL *)
Submission_save_graded(submission_id, points, feedback) ==
    IF feedback = NULL
    THEN Answered(ServerError)
    ELSE /\ submissions' = [submissions EXCEPT ![submission_id] =
                Persist(GradedInstance(@, points, feedback, now))]
         /\ response' = Redirect("assignment_detail", "success")
         /\ UNCHANGED <<classes, enrollments, lessons, lesson_files,
                        assignments, questions, answers, now, users,
                        in_flight>>

(* raw: request.POST.get('points') as a sequence of characters, <<>> when
   empty or absent (both are falsy at line 693);
   feedback: request.POST.get('feedback'), NULL when absent *)
grade_submission(u, method, submission_id, raw, feedback) ==
    IF teacher_required(u) # Pass
    THEN Answered(teacher_required(u))
    ELSE IF submission_id \notin Ids(submissions)
    THEN Answered(Http404)
    ELSE IF ~OwnsSubmission(u, submission_id)
    THEN Answered(Redirect("dashboard", "error"))
    ELSE IF method # "POST"
    THEN Answered(Render("grade_submission"))
    ELSE IF raw = <<>>
    THEN Answered(RenderMsg("grade_submission", "error"))
    ELSE IF ~IsIntLiteral(raw)
    THEN Answered(RenderMsg("grade_submission", "error"))
    ELSE IF ~PointsInRange(int(raw),
                assignments[submissions[submission_id].assignment].max_points)
    THEN Answered(RenderMsg("grade_submission", "error"))
    ELSE Submission_save_graded(submission_id, int(raw), feedback)

-----------------------------------------------------------------------------
(* Requests served side by side.  A worker runs a view up to the query
   that tests for an existing row, other workers run, and then the worker
   inserts; the database tests its unique constraints at the insert. *)

Running(w, op, pc, u, target, code) ==
    in_flight' = [in_flight EXCEPT ![w] =
        [op |-> op, pc |-> pc, user |-> u, target |-> target, code |-> code]]

Done(w) == in_flight' = [in_flight EXCEPT ![w] = Idle]

(* create_class up to form.save(): Class.save() enters generate_class_code *)
create_class_begin(w, u, name) ==
    /\ in_flight[w] = Idle
    /\ teacher_required(u) = Pass
    /\ ClassCreateForm_is_valid(name)
    /\ Running(w, "create_class", "generate", u, 0, <<>>)
    /\ UNCHANGED <<tables, users, now, response>>

(* one turn of `while True`: the drawn code is held by a class, the loop
   goes round again *)
generate_class_code_retry(w, code) ==
    /\ in_flight[w].pc = "generate"
    /\ ClassCodeExists(code)
    /\ UNCHANGED vars

(* one turn of `while True`: the drawn code is free and is returned *)
generate_class_code_return(w, code) ==
    /\ in_flight[w].pc = "generate"
    /\ ~ClassCodeExists(code)
    /\ Running(w, "create_class", "insert", in_flight[w].user, 0, code)
    /\ UNCHANGED <<tables, users, now, response>>

(* super().save(): the INSERT under class_code's unique=True *)
create_class_insert(w, name) ==
    /\ in_flight[w].op = "create_class" /\ in_flight[w].pc = "insert"
    /\ IF class_code_unique_violated(in_flight[w].code)
       THEN response' = ServerError /\ UNCHANGED tables
       ELSE /\ classes' = Append(classes,
                   [teacher |-> in_flight[w].user,
                    class_code |-> in_flight[w].code,
                    is_active |-> TRUE, name |-> name])
            /\ response' = Redirect("class_detail", "success")
            /\ UNCHANGED <<enrollments, lessons, lesson_files, assignments,
                           submissions, questions, answers>>
    /\ Done(w)
    /\ UNCHANGED <<users, now>>

(* join_class up to the exists() test of line 213, which finds nothing *)
join_class_check(w, u, raw) ==
    /\ in_flight[w] = Idle
    /\ student_required(u) = Pass
    /\ JoinClassForm_is_valid(raw)
    /\ \E c \in ActiveClassWithCode(cleaned_class_code(raw)) :
          /\ ~EnrollmentExists(u, c)
          /\ Running(w, "join_class", "insert", u, c, <<>>)
    /\ UNCHANGED <<tables, users, now, response>>

(* Enrollment.objects.create of lines 216-219 *)
join_class_insert(w) ==
    /\ in_flight[w].op = "join_class"
    /\ IF enrollment_unique_violated(in_flight[w].user, in_flight[w].target)
       THEN response' = ServerError /\ UNCHANGED tables
       ELSE /\ enrollments' = Append(enrollments,
                   [student |-> in_flight[w].user,
                    class_enrolled |-> in_flight[w].target,
                    is_active |-> TRUE])
            /\ response' = Redirect("class_detail", "success")
            /\ UNCHANGED <<classes, lessons, lesson_files, assignments,
                           submissions, questions, answers>>
    /\ Done(w)
    /\ UNCHANGED <<users, now>>

(* submit_assignment up to the lookup of an existing submission
   (lines 648-655), which does not block, with a valid form *)
submit_assignment_check(w, u, assignment_id, f) ==
    /\ in_flight[w] = Idle
    /\ student_required(u) = Pass
    /\ assignment_id \in Ids(assignments)
    /\ assignments[assignment_id].is_published
    /\ ActiveEnrollment(u, assignments[assignment_id].class_assignment)
    /\ ~ResubmissionBlocked(u, assignment_id)
    /\ SubmissionForm_is_valid(f)
    /\ Running(w, "submit_assignment", "insert", u, assignment_id, <<>>)
    /\ UNCHANGED <<tables, users, now, response>>

(* submission.save() of line 663 *)
submit_assignment_insert(w, f) ==
    /\ in_flight[w].op = "submit_assignment"
    /\ IF submission_unique_violated(in_flight[w].target, in_flight[w].user)
       THEN response' = ServerError /\ UNCHANGED tables
       ELSE /\ submissions' = Append(submissions,
                   Persist(NewSubmission(in_flight[w].user,
                                         in_flight[w].target, f, now, now)))
            /\ response' = Redirect("assignment_detail", "success")
            /\ UNCHANGED <<classes, enrollments, lessons, lesson_files,
                           assignments, questions, answers>>
    /\ Done(w)
    /\ UNCHANGED <<users, now>>

(* answer_question up to the hasattr(question, 'answer') test, which finds
   no answer, with a valid form *)
answer_question_check(w, u, question_id, text) ==
    /\ in_flight[w] = Idle
    /\ teacher_required(u) = Pass
    /\ question_id \in Ids(questions)
    /\ OwnsQuestion(u, question_id)
    /\ ~is_answered(question_id)
    /\ AnswerForm_is_valid(text)
    /\ Running(w, "answer_question", "insert", u, question_id, <<>>)
    /\ UNCHANGED <<tables, users, now, response>>

(* answer.save() *)
answer_question_insert(w, text) ==
    /\ in_flight[w].op = "answer_question"
    /\ IF answer_unique_violated(in_flight[w].target)
       THEN response' = ServerError /\ UNCHANGED tables
       ELSE /\ answers' = Append(answers,
                   [question |-> in_flight[w].target,
                    teacher |-> in_flight[w].user, answer_text |-> text])
            /\ response' = Redirect("lesson_detail", "success")
            /\ UNCHANGED <<classes, enrollments, lessons, lesson_files,
                           assignments, submissions, questions>>
    /\ Done(w)
    /\ UNCHANGED <<users, now>>

(* time passes between requests *)
Tick ==
    /\ now < MaxTime
    /\ now' = now + 1
    /\ UNCHANGED <<tables, response, users, in_flight>>

-----------------------------------------------------------------------------
(* Requests the specifications enumerate *)

(* two of the drawn codes, for the specifications that only need classes
   to exist *)
SetupDraws ==
    { <<"A", "K", "7", "Q", "2", "A">>, <<"9", "K", "7", "Q", "2", "9">> }

(* class codes as typed into the join form: as issued, in lower case,
   and three that match nothing *)
JoinInputs ==
    SetupDraws
    \cup { <<"a", "k", "7", "q", "2", "a">>, <<"9", "k", "7", "q", "2", "9">> }
    \cup { <<" ", "A", "K", "7", "Q", "2", "A", " ">> }
    \cup { <<>>, <<"I", "N", "V", "A", "L", "I", "D">>,
           <<"A", "K", "7", "Q", "2", "A", "A", "K", "7", "Q", "2">> }

Uploads == {NoFile, GoodFile, BadFile}

(* the points field as typed into the grading form *)
PointsInputs ==
    { <<>>, <<"0">>, <<"1">>, <<"2">>, <<"3">>, <<"1", "0">>,
      <<"-", "1">>, <<"+", "1">>, <<" ", "2", " ">>,
      <<"a">>, <<"1", ".", "5">>, <<" ">>, <<"-">> }

Feedbacks == {NULL, "", "good"}

DueDates == 1..(MaxTime - 1)
TableIds == 1..MaxRows

-----------------------------------------------------------------------------
(* ClassSpec: the class management views, every requester and method *)

ClassIdArgs == 1..MaxClasses

ClassNext ==
    \/ \E u \in Requesters, m \in Methods, n \in Names :
          create_class(u, m, n, CodeDraws) /\ Len(classes') <= MaxClasses
    \/ \E u \in Requesters, m \in Methods, c \in ClassIdArgs, n \in Names :
          edit_class(u, m, c, n)
    \/ \E u \in Requesters, m \in Methods, c \in ClassIdArgs : delete_class(u, m, c)

ClassSpec == Init /\ [][ClassNext]_vars

-----------------------------------------------------------------------------
(* JoinSpec: classes are created and archived, students join, staff
   deactivate and reactivate enrollments *)

JoinNext ==
    \/ \E t \in Teachers :
          create_class(t, "POST", "n1", SetupDraws) /\ Len(classes') <= MaxRows
    \/ \E t \in Teachers, c \in TableIds : delete_class(t, "POST", c)
    \/ \E u \in Requesters, m \in Methods, raw \in JoinInputs : join_class(u, m, raw)
    \/ \E e \in 1..Len(enrollments), b \in BOOLEAN : admin_change_enrollment(e, b)

JoinSpec == Init /\ [][JoinNext]_vars

-----------------------------------------------------------------------------
(* SubmitSpec: a class with enrolled students and assignments that the
   teacher edits; students submit while the clock runs *)

SubmitNext ==
    \/ create_class("t1", "POST", "n1", SetupDraws) /\ Len(classes') <= MaxRows
    \/ \E u \in Students, raw \in SetupDraws : join_class(u, "POST", raw)
    \/ \E e \in 1..Len(enrollments) : admin_change_enrollment(e, FALSE)
    \/ \E t \in Teachers, c \in TableIds, due \in DueDates,
          late \in BOOLEAN, pub \in BOOLEAN :
          /\ create_assignment(t, "POST", c, "x", Some(due), Some(2), late, pub)
          /\ Len(assignments') <= MaxRows
    \/ \E t \in Teachers, a \in TableIds, due \in DueDates,
          late \in BOOLEAN, pub \in BOOLEAN :
          edit_assignment(t, "POST", a, "x", Some(due), Some(2), late, pub)
    \/ \E u \in Requesters, m \in Methods, a \in TableIds, f \in Uploads,
          dt \in {0, 1} :
          submit_assignment(u, m, a, f, dt) /\ now' <= MaxTime
    \/ Tick

SubmitSpec == Init /\ [][SubmitNext]_vars

-----------------------------------------------------------------------------
(* GradeSpec: submissions are made on time and teachers grade them *)

GradeNext ==
    \/ create_class("t1", "POST", "n1", SetupDraws) /\ Len(classes') <= MaxRows
    \/ \E u \in Students, raw \in SetupDraws : join_class(u, "POST", raw)
    \/ \E t \in Teachers, c \in TableIds :
          /\ create_assignment(t, "POST", c, "x", Some(1), Some(2), TRUE, TRUE)
          /\ Len(assignments') <= MaxRows
    \/ \E u \in Students, a \in TableIds :
          submit_assignment(u, "POST", a, GoodFile, 0)
    \/ \E s \in 1..Len(submissions), raw \in PointsInputs, fb \in Feedbacks :
          grade_submission("t1", "POST", s, raw, fb)
    \/ \E u \in Requesters, m \in Methods, s \in 1..Len(submissions) :
          grade_submission(u, m, s, <<"1">>, "good")

GradeSpec == Init /\ [][GradeNext]_vars

-----------------------------------------------------------------------------
(* AccessSpec: one teacher builds a class with a lesson, a file, a question,
   an assignment and a submission; both teachers send every teacher request *)

AccessNext ==
    \/ \E t \in Teachers :
          create_class(t, "POST", "n1", SetupDraws) /\ Len(classes') <= MaxRows
    \/ \E raw \in SetupDraws : join_class("s1", "POST", raw)
    \/ \E t \in Teachers, c \in TableIds :
          /\ create_lesson(t, "POST", c, "x", TRUE, <<GoodFile>>)
          /\ Len(lessons') <= MaxRows
    \/ \E l \in TableIds :
          lesson_detail("s1", "POST", l, "x") /\ Len(questions') <= MaxRows
    \/ \E t \in Teachers, c \in TableIds :
          /\ create_assignment(t, "POST", c, "x", Some(1), Some(2), TRUE, TRUE)
          /\ Len(assignments') <= MaxRows
    \/ \E a \in TableIds : submit_assignment("s1", "POST", a, GoodFile, 0)
    \/ \E t \in Teachers, c \in TableIds : edit_class(t, "POST", c, "n2")
    \/ \E t \in Teachers, c \in TableIds : delete_class(t, "POST", c)
    \/ \E t \in Teachers, l \in TableIds :
          /\ edit_lesson(t, "POST", l, "y", FALSE, <<GoodFile>>)
          /\ Len(lesson_files') <= MaxRows + 1
    \/ \E t \in Teachers, l \in TableIds : delete_lesson(t, "POST", l)
    \/ \E t \in Teachers, m \in Methods, f \in 1..Len(lesson_files) :
          delete_lesson_file(t, m, f)
    \/ \E t \in Teachers, a \in TableIds :
          edit_assignment(t, "POST", a, "y", Some(1), Some(1), FALSE, FALSE)
    \/ \E t \in Teachers, a \in TableIds : delete_assignment(t, "POST", a)
    \/ \E t \in Teachers, sub \in TableIds :
          grade_submission(t, "POST", sub, <<"1">>, "good")
    \/ \E t \in Teachers, q \in TableIds : answer_question(t, "POST", q, "x")

AccessSpec == Init /\ [][AccessNext]_vars

-----------------------------------------------------------------------------
(* QASpec: students ask questions on the lessons of a class and teachers
   answer them *)

QANext ==
    \/ create_class("t1", "POST", "n1", SetupDraws) /\ Len(classes') <= MaxRows
    \/ \E u \in Students, raw \in SetupDraws : join_class(u, "POST", raw)
    \/ \E c \in TableIds, pub \in BOOLEAN :
          /\ create_lesson("t1", "POST", c, "x", pub, <<>>)
          /\ Len(lessons') <= MaxRows
    \/ \E u \in Requesters, m \in Methods, l \in TableIds, text \in {"", "x"} :
          lesson_detail(u, m, l, text) /\ Len(questions') <= MaxRows + 1
    \/ \E u \in Requesters, m \in Methods, q \in 1..Len(questions),
          text \in Texts :
          answer_question(u, m, q, text)

QASpec == Init /\ [][QANext]_vars

-----------------------------------------------------------------------------
(* AssignSpec: the teacher creates an assignment and keeps editing its due
   date and its maximum while a student submits and is graded *)

(* request.POST['due_date'] and request.POST['max_points'] as the form
   parses them: absent, or a value *)
DueDateInputs == {None} \cup {Some(d) : d \in 0..MaxTime}
MaxPointsInputs == {None, Some(-1), Some(1), Some(2)}

AssignNext ==
    \/ create_class("t1", "POST", "n1", SetupDraws) /\ Len(classes') <= MaxRows
    \/ \E raw \in SetupDraws : join_class("s1", "POST", raw)
    \/ \E c \in TableIds, due \in DueDateInputs, maxp \in MaxPointsInputs :
          /\ create_assignment("t1", "POST", c, "x", due, maxp, TRUE, TRUE)
          /\ Len(assignments') <= MaxRows
    \/ \E a \in TableIds, due \in DueDateInputs, maxp \in MaxPointsInputs :
          edit_assignment("t1", "POST", a, "x", due, maxp, TRUE, TRUE)
    \/ \E a \in TableIds : submit_assignment("s1", "POST", a, GoodFile, 0)
    \/ \E sub \in 1..Len(submissions),
          raw \in {<<"0">>, <<"1">>, <<"2">>, <<"-", "1">>} :
          grade_submission("t1", "POST", sub, raw, "good")
    \/ Tick

AssignSpec == Init /\ [][AssignNext]_vars

-----------------------------------------------------------------------------
(* GateSpec: teacher t1 builds a class with a lesson, a file, a question,
   an assignment and a submission; enrollments are switched off and on;
   every requester but t1 sends every teacher request, and every requester
   sends every student request and opens every page *)

Others == Requesters \ {"t1"}

GateNext ==
    \/ \E u \in Requesters \ {"t2"} :
          create_class(u, "POST", "n1", SetupDraws) /\ Len(classes') <= MaxRows
    \/ \E u \in Requesters, raw \in SetupDraws : join_class(u, "POST", raw)
    \/ \E e \in 1..Len(enrollments), b \in BOOLEAN :
          admin_change_enrollment(e, b)
    \/ \E u \in Requesters, c \in TableIds :
          /\ create_lesson(u, "POST", c, "x", TRUE, <<GoodFile>>)
          /\ Len(lessons') <= MaxRows
    \/ \E u \in Requesters, c \in TableIds :
          /\ create_assignment(u, "POST", c, "x", Some(1), Some(2), TRUE, TRUE)
          /\ Len(assignments') <= MaxRows
    \/ \E u \in Requesters, c \in TableIds : class_detail(u, c)
    \/ \E u \in Requesters, l \in TableIds :
          lesson_detail(u, "POST", l, "x") /\ Len(questions') <= MaxRows
    \/ \E u \in Requesters, a \in TableIds : assignment_detail(u, a)
    \/ \E u \in Requesters, a \in TableIds :
          submit_assignment(u, "POST", a, GoodFile, 0)
    \/ \E u \in Others, c \in TableIds : edit_class(u, "POST", c, "n2")
    \/ \E u \in Others, c \in TableIds : delete_class(u, "POST", c)
    \/ \E u \in Others, l \in TableIds :
          edit_lesson(u, "POST", l, "y", FALSE, <<GoodFile>>)
    \/ \E u \in Others, l \in TableIds : delete_lesson(u, "POST", l)
    \/ \E u \in Others, f \in TableIds : delete_lesson_file(u, "POST", f)
    \/ \E u \in Others, a \in TableIds :
          edit_assignment(u, "POST", a, "y", Some(1), Some(1), FALSE, FALSE)
    \/ \E u \in Others, a \in TableIds : delete_assignment(u, "POST", a)
    \/ \E u \in Others, sub \in TableIds :
          grade_submission(u, "POST", sub, <<"1">>, "good")
    \/ \E u \in Others, q \in TableIds : answer_question(u, "POST", q, "x")

GateSpec == Init /\ [][GateNext]_vars

-----------------------------------------------------------------------------
(* RaceSpec: two workers serve create_class, join_class, submit_assignment
   and answer_question requests side by side, in every interleaving of
   their tests and inserts; lessons, questions and assignments are set up
   by requests that run alone *)

RaceNext ==
    \/ \E w \in Workers, t \in Teachers : create_class_begin(w, t, "n1")
    \/ \E w \in Workers, code \in SetupDraws : generate_class_code_retry(w, code)
    \/ \E w \in Workers, code \in SetupDraws : generate_class_code_return(w, code)
    \/ \E w \in Workers : create_class_insert(w, "n1")
    \/ \E w \in Workers, raw \in SetupDraws : join_class_check(w, "s1", raw)
    \/ \E w \in Workers : join_class_insert(w)
    \/ \E c \in TableIds :
          /\ create_lesson("t1", "POST", c, "x", TRUE, <<>>)
          /\ Len(lessons') <= MaxRows
    \/ \E l \in TableIds :
          lesson_detail("s1", "POST", l, "x") /\ Len(questions') <= MaxRows
    \/ \E w \in Workers, q \in TableIds : answer_question_check(w, "t1", q, "x")
    \/ \E w \in Workers : answer_question_insert(w, "x")
    \/ \E c \in TableIds :
          /\ create_assignment("t1", "POST", c, "x", Some(1), Some(2), TRUE, TRUE)
          /\ Len(assignments') <= MaxRows
    \/ \E w \in Workers, a \in TableIds :
          submit_assignment_check(w, "s1", a, GoodFile)
    \/ \E w \in Workers : submit_assignment_insert(w, GoodFile)

RaceSpec == Init /\ [][RaceNext]_vars

-----------------------------------------------------------------------------
(* GenSpec: teachers create classes over a code space of two codes, the
   workers turning in generate_class_code step by step; GenFairSpec adds
   that a worker in the loop whose draw can hit a free code eventually
   draws one, and that a worker about to insert does insert *)

GenNext ==
    \/ \E w \in Workers, t \in Teachers, n \in {"n1", "n2"} :
          create_class_begin(w, t, n)
    \/ \E w \in Workers, code \in SetupDraws : generate_class_code_retry(w, code)
    \/ \E w \in Workers, code \in SetupDraws : generate_class_code_return(w, code)
    \/ \E w \in Workers, n \in {"n1", "n2"} : create_class_insert(w, n)
    \/ \E t \in Teachers, c \in ClassIdArgs : delete_class(t, "POST", c)

GenSpec == Init /\ [][GenNext]_vars

GenFairSpec ==
    /\ GenSpec
    /\ \A w \in Workers :
          /\ WF_vars(\E code \in SetupDraws : generate_class_code_return(w, code))
          /\ WF_vars(\E n \in {"n1", "n2"} : create_class_insert(w, n))

-----------------------------------------------------------------------------
(* RegisterSpec: visitors register accounts u1 and u2 with any value in
   the role field, and the new accounts, teacher t1 and visitors use the
   application *)

NewNames == {"u1", "u2"}
UsernameInputs == NewNames \cup {"t1", ""}
EmailInputs == {"e1", "e2", "t1"}
RoleInputs == {"TEACHER", "STUDENT", "ADMIN", "student", NULL}
Actors == NewNames \cup {"t1", Anonymous}

RegisterNext ==
    \/ \E u \in {Anonymous, "t1"}, m \in Methods, n \in UsernameInputs,
          e \in EmailInputs, pw \in BOOLEAN, r \in RoleInputs :
          register_view(u, m, n, e, pw, r)
    \/ \E u \in Actors :
          create_class(u, "POST", "n1", SetupDraws) /\ Len(classes') <= MaxRows
    \/ \E u \in Actors, raw \in SetupDraws : join_class(u, "POST", raw)
    \/ \E u \in Actors, c \in TableIds :
          /\ create_lesson(u, "POST", c, "x", TRUE, <<>>)
          /\ Len(lessons') <= MaxRows
    \/ \E u \in Actors, l \in TableIds :
          lesson_detail(u, "POST", l, "x") /\ Len(questions') <= MaxRows
    \/ \E u \in Actors, q \in TableIds : answer_question(u, "POST", q, "x")
    \/ \E u \in Actors, c \in TableIds :
          /\ create_assignment(u, "POST", c, "x", Some(1), Some(2), TRUE, TRUE)
          /\ Len(assignments') <= MaxRows
    \/ \E u \in Actors, a \in TableIds :
          /\ submit_assignment(u, "POST", a, GoodFile, 0)
          /\ Len(submissions') <= MaxRows
    \/ \E u \in Actors, sub \in TableIds :
          grade_submission(u, "POST", sub, <<"1">>, "good")

RegisterSpec == Init /\ [][RegisterNext]_vars

-----------------------------------------------------------------------------
(* UploadSpec: teacher t1 attaches files to lessons and student s1 hands
   in files, with extensions in either case, inside and outside the
   allow-list, and sizes on both sides of the limit *)

MaxFiles == 2

UploadExts ==
    { <<".", "p", "d", "f">>, <<".", "P", "n", "G">>,
      <<".", "e", "x", "e">>, <<>> }

UploadSizes == {0, FileSizeLimit, FileSizeLimit + 1}

UploadFiles == [name : {"hw"} \X UploadExts, size : UploadSizes]

(* request.FILES.getlist('files'): none, one, or two files *)
FileLists ==
    {<<>>} \cup {<<f>> : f \in UploadFiles}
    \cup {<<f, g>> : f, g \in
             {GoodFile, BadFile,
              [name |-> <<"hw", <<".", "p", "d", "f">>>>,
               size |-> FileSizeLimit + 1]}}

UploadNext ==
    \/ create_class("t1", "POST", "n1", SetupDraws) /\ Len(classes') <= MaxRows
    \/ \E raw \in SetupDraws : join_class("s1", "POST", raw)
    \/ \E c \in TableIds, files \in FileLists :
          /\ create_lesson("t1", "POST", c, "x", TRUE, files)
          /\ Len(lessons') <= MaxRows
          /\ Len(lesson_files') <= MaxFiles
    \/ \E l \in TableIds, files \in FileLists :
          /\ edit_lesson("t1", "POST", l, "y", TRUE, files)
          /\ Len(lesson_files') <= MaxFiles
    \/ \E c \in TableIds :
          /\ create_assignment("t1", "POST", c, "x", Some(1), Some(2), TRUE, TRUE)
          /\ Len(assignments') <= MaxRows
    \/ \E a \in TableIds, f \in UploadFiles \cup {NoFile} :
          submit_assignment("s1", "POST", a, f, 0)

UploadSpec == Init /\ [][UploadNext]_vars

-----------------------------------------------------------------------------
(* LapsedSpec: students join the class of teacher t1, staff switch
   enrollments off and on, t1 publishes content and may archive the class,
   and the students keep sending their requests *)

LapsedNext ==
    \/ create_class("t1", "POST", "n1", SetupDraws) /\ Len(classes') <= MaxRows
    \/ \E u \in Students, m \in Methods, raw \in SetupDraws :
          join_class(u, m, raw)
    \/ \E e \in 1..Len(enrollments), b \in BOOLEAN :
          admin_change_enrollment(e, b)
    \/ \E c \in TableIds, p \in BOOLEAN :
          /\ create_lesson("t1", "POST", c, "x", p, <<>>)
          /\ Len(lessons') <= MaxRows
    \/ \E c \in TableIds, p \in BOOLEAN :
          /\ create_assignment("t1", "POST", c, "x", Some(1), Some(2), TRUE, p)
          /\ Len(assignments') <= MaxRows
    \/ \E c \in TableIds : delete_class("t1", "POST", c)
    \/ \E u \in Students, c \in TableIds : class_detail(u, c)
    \/ \E u \in Students, m \in Methods, l \in TableIds :
          lesson_detail(u, m, l, "x") /\ Len(questions') <= MaxRows
    \/ \E u \in Students, a \in TableIds : assignment_detail(u, a)
    \/ \E u \in Students, m \in Methods, a \in TableIds :
          submit_assignment(u, m, a, GoodFile, 0)

LapsedSpec == Init /\ [][LapsedNext]_vars

-----------------------------------------------------------------------------
(* ArchiveSpec: teacher t1 fills a class, archives it at any moment and
   goes on working in it, with GET and POST requests to the delete views;
   students join, open the class, ask and submit before and after *)

ArchiveNext ==
    \/ create_class("t1", "POST", "n1", SetupDraws) /\ Len(classes') <= MaxRows
    \/ \E u \in Students, raw \in SetupDraws : join_class(u, "POST", raw)
    \/ \E u \in Requesters, c \in TableIds : class_detail(u, c)
    \/ \E c \in TableIds :
          /\ create_lesson("t1", "POST", c, "x", TRUE, <<GoodFile>>)
          /\ Len(lessons') <= MaxRows
    \/ \E l \in TableIds :
          lesson_detail("s1", "POST", l, "x") /\ Len(questions') <= MaxRows
    \/ \E c \in TableIds :
          /\ create_assignment("t1", "POST", c, "x", Some(1), Some(2), TRUE, TRUE)
          /\ Len(assignments') <= MaxRows
    \/ \E a \in TableIds : submit_assignment("s1", "POST", a, GoodFile, 0)
    \/ \E m \in Methods, c \in TableIds : edit_class("t1", m, c, "n2")
    \/ \E m \in Methods, c \in TableIds : delete_class("t1", m, c)
    \/ \E l \in TableIds : edit_lesson("t1", "POST", l, "y", TRUE, <<>>)
    \/ \E m \in Methods, l \in TableIds : delete_lesson("t1", m, l)
    \/ \E m \in Methods, f \in TableIds : delete_lesson_file("t1", m, f)
    \/ \E a \in TableIds :
          edit_assignment("t1", "POST", a, "y", Some(1), Some(2), TRUE, TRUE)
    \/ \E m \in Methods, a \in TableIds : delete_assignment("t1", m, a)
    \/ \E sub \in TableIds : grade_submission("t1", "POST", sub, <<"1">>, "good")

ArchiveSpec == Init /\ [][ArchiveNext]_vars

-----------------------------------------------------------------------------
(* Properties *)

(* C1: after any sequence of create_class, edit_class and delete_class,
   every stored class has a class_code of exactly 6 characters drawn from
   A-Z and 0-9, and no two stored classes, active or archived, share a
   class_code. *)
C1_ClassCodesWellFormedAndUnique ==
    /\ \A i \in Ids(classes) :
          /\ Len(classes[i].class_code) = 6
          /\ \A k \in 1..Len(classes[i].class_code) :
                classes[i].class_code[k] \in Charset
    /\ \A i, j \in Ids(classes) :
          classes[i].class_code = classes[j].class_code => i = j

(* two classes are stored, the first one edited and archived *)
C1_Witness ==
    /\ Len(classes) = 2
    /\ classes[1].name = "n2"
    /\ ~classes[1].is_active
    /\ classes[2].is_active

(* C3: there is at most one Enrollment per (student, class) pair, and a
   join_class request by a student who already has an enrollment for the
   class named by the code creates no enrollment and changes no existing
   one. *)
C3_AtMostOneEnrollment ==
    \A e1, e2 \in Ids(enrollments) :
        (/\ enrollments[e1].student = enrollments[e2].student
         /\ enrollments[e1].class_enrolled = enrollments[e2].class_enrolled)
        => e1 = e2

C3_RejoinChangesNothing ==
    \A u \in Students, m \in Methods, raw \in JoinInputs :
        (/\ join_class(u, m, raw)
         /\ \E c \in Ids(classes) :
               /\ classes[c].class_code = Upper(Strip(raw))
               /\ EnrollmentExists(u, c))
        => enrollments' = enrollments

C3_NoSecondEnrollment ==
    [](C3_AtMostOneEnrollment) /\ [][C3_RejoinChangesNothing]_vars

(* a student whose only enrollment was deactivated has asked to join again
   and was told they are already enrolled *)
C3_Witness ==
    /\ Len(enrollments) = 1
    /\ ~enrollments[1].is_active
    /\ response = Redirect("class_detail", "warning")

(* the active classes whose class_code is the given code *)
ActiveClassesNamed(code) ==
    {c \in Ids(classes) : classes[c].is_active /\ classes[c].class_code = code}

(* C14 as stated: a join_class request whose code, compared after
   upper-casing, matches the class_code of no active class is rejected
   with a validation error and creates no enrollment. *)
C14_UnmatchedCodeRejected ==
    [][\A u \in Students, raw \in JoinInputs :
          (ActiveClassesNamed(Upper(raw)) = {} /\ join_class(u, "POST", raw))
          => /\ response' = RenderMsg("join_class", "form_error")
             /\ enrollments' = enrollments]_vars

(* C14 amended: a join_class request whose code, compared after trimming
   the blanks around it and upper-casing, matches the class_code of no
   active class (an archived class's code included) is rejected with a
   validation error and creates no enrollment. *)
C14_UnmatchedTrimmedCodeRejected ==
    [][\A u \in Students, raw \in JoinInputs :
          (/\ ActiveClassesNamed(Upper(Strip(raw))) = {}
           /\ join_class(u, "POST", raw))
          => /\ response' = RenderMsg("join_class", "form_error")
             /\ enrollments' = enrollments]_vars

(* a join form was rejected while the only class is archived and nobody
   is enrolled in it *)
C14_Witness ==
    /\ response = RenderMsg("join_class", "form_error")
    /\ Len(classes) = 1
    /\ ~classes[1].is_active
    /\ enrollments = <<>>

(* C2: when submit_assignment first saves a submission, the stored status
   is ON_TIME exactly when the stored submitted_at is at or before the
   assignment's due_date, and LATE otherwise; never empty, never GRADED. *)
C2_StatusMatchesStoredTimestamp ==
    [][\A u \in Students, a \in TableIds :
          (/\ Len(submissions') = Len(submissions) + 1
           /\ \E m \in Methods, f \in Uploads, dt \in {0, 1} :
                 submit_assignment(u, m, a, f, dt))
          => LET row == submissions'[Len(submissions')] IN
             /\ row.status \in {"ON_TIME", "LATE"}
             /\ (row.status = "ON_TIME")
                  <=> (row.submitted_at <= assignments[a].due_date)]_vars

(* the student u already has a submission for assignment a, which does
   not allow late submission *)
C4_Case(u, a) ==
    /\ a \in Ids(assignments)
    /\ ~assignments[a].allow_late_submission
    /\ SubmissionsOf(a, u) # {}

(* C4 as stated: in that case every submit_assignment request, GET or
   POST, is answered with a warning and a redirect to assignment_detail,
   and the submissions are unchanged. *)
C4_AlwaysWarned ==
    [][\A u \in Students, a \in TableIds :
          C4_Case(u, a) =>
             \A m \in Methods, f \in Uploads, dt \in {0, 1} :
                submit_assignment(u, m, a, f, dt)
                => /\ response' = Redirect("assignment_detail", "warning")
                   /\ submissions' = submissions]_vars

(* C4 amended: in that case the submissions are unchanged, and the request
   is answered with the warning and the redirect to assignment_detail
   whenever the assignment is published and the student is actively
   enrolled in its class. *)
C4_WarnedWhenReachable ==
    [][\A u \in Students, a \in TableIds :
          C4_Case(u, a) =>
             \A m \in Methods, f \in Uploads, dt \in {0, 1} :
                submit_assignment(u, m, a, f, dt)
                => /\ submissions' = submissions
                   /\ (/\ assignments[a].is_published
                       /\ ActiveEnrollment(u, assignments[a].class_assignment))
                      => response' = Redirect("assignment_detail", "warning")]_vars

(* a student with a submission for an assignment that does not allow late
   submission has just been warned *)
C4_Witness ==
    /\ response = Redirect("assignment_detail", "warning")
    /\ \E a \in Ids(assignments), u \in Students :
          /\ ~assignments[a].allow_late_submission
          /\ SubmissionsOf(a, u) # {}

(* the actively enrolled student u may submit to the published assignment a *)
MaySubmit(u, a) ==
    /\ a \in Ids(assignments)
    /\ assignments[a].is_published
    /\ ActiveEnrollment(u, assignments[a].class_assignment)

(* C5: when the assignment allows late submission, a student who already
   has a submission and posts a valid file again gets a normal page or
   redirect and the resubmission is accepted. *)
C5_ResubmissionHandled ==
    [][\A u \in Students, a \in TableIds :
          (/\ MaySubmit(u, a)
           /\ assignments[a].allow_late_submission
           /\ SubmissionsOf(a, u) # {})
          => \A dt \in {0, 1} :
                submit_assignment(u, "POST", a, GoodFile, dt)
                => /\ response'.kind \in {"render", "redirect"}
                   /\ response' = Redirect("assignment_detail", "success")]_vars

(* C6: an actively enrolled student with no prior submission who posts a
   valid file for a published assignment ends with exactly one stored
   submission for that (assignment, student) pair, whose student is the
   requesting user and whose assignment is the one addressed. *)
C6_FirstSubmissionStored ==
    [][\A u \in Students, a \in TableIds :
          (MaySubmit(u, a) /\ SubmissionsOf(a, u) = {})
          => \A dt \in {0, 1} :
                submit_assignment(u, "POST", a, GoodFile, dt)
                => /\ Len(submissions') = Len(submissions) + 1
                   /\ submissions'[Len(submissions')].student = u
                   /\ submissions'[Len(submissions')].assignment = a
                   /\ \A i \in 1..Len(submissions) :
                         submissions'[i] = submissions[i]
                   /\ Cardinality({i \in 1..Len(submissions') :
                          /\ submissions'[i] # NoRow
                          /\ submissions'[i].student = u
                          /\ submissions'[i].assignment = a}) = 1]_vars

(* both students have submitted to the same assignment *)
C6_Witness ==
    /\ response = Redirect("assignment_detail", "success")
    /\ Len(submissions) = 2
    /\ submissions[1].assignment = submissions[2].assignment
    /\ submissions[1].student # submissions[2].student

(* What each typed points value is, stated apart from the parser: the
   integer it denotes, or that it denotes none. *)
EmptyPoints == { <<>> }
NonNumericPoints == { <<"a">>, <<"1", ".", "5">>, <<" ">>, <<"-">> }
IntegerPoints ==
    { <<<<"0">>, 0>>, <<<<"1">>, 1>>, <<<<"2">>, 2>>, <<<<"3">>, 3>>,
      <<<<"1", "0">>, 10>>, <<<<"-", "1">>, -1>>, <<<<"+", "1">>, 1>>,
      <<<<" ", "2", " ">>, 2>> }

(* the teacher t owns the class of the stored submission s *)
MayGrade(t, s) == s \in Ids(submissions) /\ OwnsSubmission(t, s)

MaxPointsOf(s) == assignments[submissions[s].assignment].max_points

(* the typed values that are empty, non-numeric, or outside [0, max_points] *)
BadPoints(max_points) ==
    EmptyPoints \cup NonNumericPoints
    \cup { p[1] : p \in { q \in IntegerPoints : q[2] < 0 \/ q[2] > max_points } }

(* C7: a grade_submission POST whose points value is an integer outside
   [0, max_points], is non-numeric, or is empty is rejected with an error
   message and leaves the submission's points, feedback and status as they
   were. *)
C7_BadPointsRejected ==
    [][\/ /\ response' = RenderMsg("grade_submission", "error")
          /\ submissions' = submissions
       \/ \A t \in Teachers, s \in 1..Len(submissions) :
             MayGrade(t, s) =>
                \A raw \in BadPoints(MaxPointsOf(s)), fb \in Feedbacks :
                   ~grade_submission(t, "POST", s, raw, fb)]_vars

(* a submission that holds a grade and feedback, and a never-graded one,
   after a grading request was rejected *)
C7_Witness ==
    /\ response = RenderMsg("grade_submission", "error")
    /\ \E s \in Ids(submissions) :
          submissions[s].points = Some(1) /\ submissions[s].feedback = "good"
    /\ \E s \in Ids(submissions) : submissions[s].points = None

(* C8: a grade_submission POST by the owning teacher with integer points
   in [0, max_points] persists the points, the feedback text and a graded
   timestamp on the submission, so that all three can be read back from
   the stored submission. *)
C8_GradePersisted ==
    [][\A t \in Teachers, s \in 1..Len(submissions) :
          MayGrade(t, s) =>
             \A p \in IntegerPoints, fb \in Feedbacks \ {NULL} :
                (/\ 0 <= p[2]
                 /\ p[2] <= MaxPointsOf(s)
                 /\ grade_submission(t, "POST", s, p[1], fb))
                => /\ submissions'[s].points = Some(p[2])
                   /\ submissions'[s].feedback = fb
                   /\ "graded_at" \in DOMAIN submissions'[s]]_vars

(* C9: a successful grade_submission sets the status to GRADED, GRADED is
   terminal, and no operation other than grading produces GRADED. *)
C9_GradedStatus ==
    [][/\ \A t \in Teachers, s \in 1..Len(submissions) :
             MayGrade(t, s) =>
                \A p \in IntegerPoints, fb \in Feedbacks \ {NULL} :
                   (/\ 0 <= p[2]
                    /\ p[2] <= MaxPointsOf(s)
                    /\ grade_submission(t, "POST", s, p[1], fb))
                   => submissions'[s].status = "GRADED"
       /\ \A s \in Ids(submissions) :
             (submissions[s].status = "GRADED" /\ submissions'[s] # NoRow)
             => submissions'[s].status = "GRADED"
       /\ \A s \in 1..Len(submissions') :
             (/\ submissions'[s] # NoRow
              /\ submissions'[s].status = "GRADED"
              /\ (s \in Ids(submissions) => submissions[s].status # "GRADED"))
             => \E t \in Teachers, raw \in PointsInputs, fb \in Feedbacks :
                   grade_submission(t, "POST", s, raw, fb)]_vars

(* the teacher of the class that each stored record belongs to *)
ClassTeacher(c) == classes[c].teacher
LessonTeacher(l) == ClassTeacher(lessons[l].class_lesson)
FileTeacher(f) == LessonTeacher(lesson_files[f].lesson)
QuestionTeacher(q) == LessonTeacher(questions[q].lesson)
AssignmentTeacher(a) == ClassTeacher(assignments[a].class_assignment)
SubmissionTeacher(sub) == AssignmentTeacher(submissions[sub].assignment)

(* the request was denied and every stored record is as it was *)
Denied ==
    /\ response' \in {Http404, Redirect("dashboard", "error")}
    /\ tables' = tables

(* C10: for every teacher T and every class, lesson, lesson file,
   assignment, submission or question of a class owned by a different
   teacher, T's edit_class, delete_class, create_lesson, edit_lesson,
   delete_lesson, delete_lesson_file, create_assignment, edit_assignment,
   delete_assignment, grade_submission and answer_question requests are
   denied and leave every stored record unchanged. *)
C10_OtherTeachersDenied ==
    [][\A t \in Teachers, m \in Methods :
          /\ \A c \in Ids(classes) :
                ClassTeacher(c) # t =>
                   /\ edit_class(t, m, c, "n2") => Denied
                   /\ delete_class(t, m, c) => Denied
                   /\ create_lesson(t, m, c, "x", TRUE, <<GoodFile>>) => Denied
                   /\ create_assignment(t, m, c, "x", Some(1), Some(2),
                                        TRUE, TRUE) => Denied
          /\ \A l \in Ids(lessons) :
                LessonTeacher(l) # t =>
                   /\ edit_lesson(t, m, l, "y", FALSE, <<GoodFile>>) => Denied
                   /\ delete_lesson(t, m, l) => Denied
          /\ \A f \in Ids(lesson_files) :
                FileTeacher(f) # t => (delete_lesson_file(t, m, f) => Denied)
          /\ \A a \in Ids(assignments) :
                AssignmentTeacher(a) # t =>
                   /\ edit_assignment(t, m, a, "y", Some(1), Some(1),
                                      FALSE, FALSE) => Denied
                   /\ delete_assignment(t, m, a) => Denied
          /\ \A sub \in Ids(submissions) :
                SubmissionTeacher(sub) # t =>
                   (grade_submission(t, m, sub, <<"1">>, "good") => Denied)
          /\ \A q \in Ids(questions) :
                QuestionTeacher(q) # t =>
                   (answer_question(t, m, q, "x") => Denied)]_vars

(* a class with a lesson, a file, an unanswered question, an assignment
   and an ungraded submission, whose teacher is not t2, after a request
   was turned away to the dashboard *)
C10_Witness ==
    /\ response = Redirect("dashboard", "error")
    /\ Ids(classes) # {} /\ \A c \in Ids(classes) : ClassTeacher(c) = "t1"
    /\ Ids(lessons) # {} /\ Ids(lesson_files) # {}
    /\ Ids(questions) # {} /\ Ids(answers) = {}
    /\ Ids(assignments) # {}
    /\ \E sub \in Ids(submissions) : submissions[sub].points = None

(* C17: a class's class_code is assigned exactly once, at the first save,
   and no later operation (edit_class, delete_class, any re-save of the
   class) changes it. *)
C17_ClassCodeAssignedOnce ==
    [][/\ \A c \in Ids(classes) :
             /\ c \in 1..Len(classes')
             /\ classes'[c] # NoRow
             /\ classes'[c].class_code = classes[c].class_code
       /\ \A c \in 1..Len(classes') :
             c \notin 1..Len(classes) => classes'[c].class_code # <<>>]_vars

(* a class that was renamed and then archived *)
C17_Witness ==
    /\ response = Redirect("dashboard", "success")
    /\ \E c \in Ids(classes) :
          classes[c].name = "n2" /\ ~classes[c].is_active

(* the stored answers to the question q *)
AnswersTo(q) == {a \in Ids(answers) : answers[a].question = q}

C18_AtMostOneAnswer == \A q \in Ids(questions) : Cardinality(AnswersTo(q)) <= 1

C18_AnsweredQuestionKept ==
    \A q \in Ids(questions) :
        AnswersTo(q) # {} =>
           \A u \in Requesters, m \in Methods, text \in Texts :
              answer_question(u, m, q, text)
              => /\ answers' = answers
                 /\ QuestionTeacher(q) = u
                    => response' = Redirect("lesson_detail", "warning")

(* C18: each question has at most one answer; an answer_question request
   for a question that already has an answer creates no answer and leaves
   the existing answer's text and author unchanged, and the teacher of the
   class is answered with a warning. *)
C18_OneAnswerPerQuestion ==
    [](C18_AtMostOneAnswer) /\ [][C18_AnsweredQuestionKept]_vars

(* a question is answered, another one is not, and the teacher was just
   told that the question already has an answer *)
C18_Witness ==
    /\ response = Redirect("lesson_detail", "warning")
    /\ Len(answers) = 1
    /\ \E q \in Ids(questions) : AnswersTo(q) = {}

(* C19: after delete_lesson no LessonFile, Question or Answer of the
   lesson remains and after delete_assignment no Submission for the
   assignment remains: in every reachable state no stored record refers to
   a deleted parent. *)
C19_NoOrphans ==
    /\ \A l \in Ids(lessons) : lessons[l].class_lesson \in Ids(classes)
    /\ \A f \in Ids(lesson_files) : lesson_files[f].lesson \in Ids(lessons)
    /\ \A q \in Ids(questions) : questions[q].lesson \in Ids(lessons)
    /\ \A a \in Ids(answers) : answers[a].question \in Ids(questions)
    /\ \A a \in Ids(assignments) :
          assignments[a].class_assignment \in Ids(classes)
    /\ \A sub \in Ids(submissions) :
          submissions[sub].assignment \in Ids(assignments)
    /\ \A e \in Ids(enrollments) :
          enrollments[e].class_enrolled \in Ids(classes)

(* a lesson that had a file, a question and an answer, and an assignment
   that had a submission, have both been deleted *)
C19_Witness ==
    /\ Len(lessons) = 1 /\ lessons[1] = NoRow
    /\ Len(lesson_files) >= 1 /\ Len(questions) = 1 /\ Len(answers) = 1
    /\ Len(assignments) = 1 /\ assignments[1] = NoRow
    /\ Len(submissions) = 1

(* C15: in every reachable state every submission's points is either
   null or an integer with 0 <= points <= the current max_points of its
   assignment. *)
C15_PointsWithinMax ==
    \A sub \in Ids(submissions) :
        \/ submissions[sub].points = None
        \/ /\ 0 <= submissions[sub].points[1]
           /\ submissions[sub].points[1]
                 <= assignments[submissions[sub].assignment].max_points

C16_StoredAssignmentsValid ==
    \A a \in Ids(assignments) :
        /\ assignments[a].due_date \in 0..MaxTime
        /\ assignments[a].max_points >= 0

C16_InvalidRequestsRejected ==
    \A c \in TableIds, due \in DueDateInputs, maxp \in MaxPointsInputs :
        (/\ due = None \/ (maxp # None /\ maxp[1] < 0)
         /\ \/ create_assignment("t1", "POST", c, "x", due, maxp, TRUE, TRUE)
            \/ edit_assignment("t1", "POST", c, "x", due, maxp, TRUE, TRUE))
        => assignments' = assignments

(* C16: every assignment stored through create_assignment or
   edit_assignment has a due_date and max_points >= 0; a request with a
   negative max_points or without a due date is rejected and stores
   nothing. *)
C16_DueDateAndNonNegativeMax ==
    [](C16_StoredAssignmentsValid) /\ [][C16_InvalidRequestsRejected]_vars

(* C20: in every reachable state, also after edit_assignment has changed
   the due_date, every submission has status ON_TIME if and only if its
   submitted_at is at or before its assignment's due_date, and LATE
   otherwise. *)
C20_StatusFollowsDueDate ==
    \A sub \in Ids(submissions) :
        /\ submissions[sub].status \in {"ON_TIME", "LATE"}
        /\ (submissions[sub].status = "ON_TIME")
             <=> (submissions[sub].submitted_at
                    <= assignments[submissions[sub].assignment].due_date)

(* The requests of GateSpec, by the record they address *)
ClassRequest(u, c) ==
    \/ edit_class(u, "POST", c, "n2")
    \/ delete_class(u, "POST", c)
    \/ create_lesson(u, "POST", c, "x", TRUE, <<GoodFile>>)
    \/ create_assignment(u, "POST", c, "x", Some(1), Some(2), TRUE, TRUE)
LessonRequest(u, l) ==
    \/ edit_lesson(u, "POST", l, "y", FALSE, <<GoodFile>>)
    \/ delete_lesson(u, "POST", l)
AssignmentRequest(u, a) ==
    \/ edit_assignment(u, "POST", a, "y", Some(1), Some(1), FALSE, FALSE)
    \/ delete_assignment(u, "POST", a)
TeacherOnlyRequest(u, i) ==
    \/ create_class(u, "POST", "n1", SetupDraws)
    \/ ClassRequest(u, i)
    \/ LessonRequest(u, i)
    \/ delete_lesson_file(u, "POST", i)
    \/ AssignmentRequest(u, i)
    \/ grade_submission(u, "POST", i, <<"1">>, "good")
    \/ answer_question(u, "POST", i, "x")
StudentOnlyRequest(u, i) ==
    \/ \E raw \in SetupDraws : join_class(u, "POST", raw)
    \/ submit_assignment(u, "POST", i, GoodFile, 0)

(* C11: every teacher-only operation requested by a user whose role is
   not TEACHER, and every student-only operation requested by a user whose
   role is not STUDENT, is rejected before the view body runs and changes
   no stored record. *)
C11_WrongRoleRejected ==
    [][\A i \in TableIds :
          /\ \A u \in Requesters \ Teachers :
                TeacherOnlyRequest(u, i)
                => /\ tables' = tables
                   /\ response' = IF u \in Users
                                  THEN Redirect("dashboard", "error")
                                  ELSE Redirect("login", "error")
          /\ \A u \in Requesters \ Students :
                StudentOnlyRequest(u, i)
                => /\ tables' = tables
                   /\ response' = IF u \in Users
                                  THEN Redirect("dashboard", "error")
                                  ELSE Redirect("login", "error")]_vars

(* every kind of record is stored and a request of a visitor who is not
   logged in was sent to the login page with an error *)
C11_Witness ==
    /\ response = Redirect("login", "error")
    /\ Ids(classes) # {} /\ Ids(lessons) # {} /\ Ids(lesson_files) # {}
    /\ Ids(questions) # {} /\ Ids(assignments) # {} /\ Ids(submissions) # {}

(* an Enrollment with is_active = true exists for the student and the class *)
ActivelyEnrolled(u, c) ==
    \E e \in Ids(enrollments) :
        /\ enrollments[e].student = u
        /\ enrollments[e].class_enrolled = c
        /\ enrollments[e].is_active = TRUE

(* the request was turned away and nothing was stored *)
TurnedAway ==
    /\ response' \in {Redirect("dashboard", "error"), Http404}
    /\ tables' = tables

(* C12: a student views class_detail, lesson_detail or assignment_detail,
   posts a question or submits to an assignment only while an Enrollment
   with is_active = true exists for the student and the class that owns
   the target; without it the request creates no question and no
   submission. *)
C12_ActiveEnrollmentNeeded ==
    [][\A u \in Students :
          /\ \A c \in Ids(classes) :
                ~ActivelyEnrolled(u, c) => (class_detail(u, c) => TurnedAway)
          /\ \A l \in Ids(lessons) :
                ~ActivelyEnrolled(u, lessons[l].class_lesson) =>
                   \A m \in Methods :
                      lesson_detail(u, m, l, "x") => TurnedAway
          /\ \A a \in Ids(assignments) :
                ~ActivelyEnrolled(u, assignments[a].class_assignment) =>
                   /\ assignment_detail(u, a) => TurnedAway
                   /\ \A m \in Methods :
                         submit_assignment(u, m, a, GoodFile, 0) => TurnedAway]_vars

(* a student whose enrollment was switched off was turned away, with a
   lesson and an assignment in the class and nothing asked or submitted *)
C12_Witness ==
    /\ response = Redirect("dashboard", "error")
    /\ Ids(enrollments) # {}
    /\ \A e \in Ids(enrollments) : ~enrollments[e].is_active
    /\ Ids(lessons) # {} /\ Ids(assignments) # {}
    /\ questions = <<>> /\ submissions = <<>>

(* The denials of the four access-control stages, for the requests of
   GateSpec that address record i *)
PageRequest(u, i) ==
    \/ class_detail(u, i)
    \/ assignment_detail(u, i)
    \/ \E m \in Methods : lesson_detail(u, m, i, "x")

(* stage 1: the requester is not logged in *)
NotLoggedInDenial(i) ==
    \/ TeacherOnlyRequest(Anonymous, i)
    \/ StudentOnlyRequest(Anonymous, i)
    \/ PageRequest(Anonymous, i)

(* stage 2: the requester has the other role *)
WrongRoleDenial(i) ==
    \/ \E u \in Students : TeacherOnlyRequest(u, i)
    \/ \E u \in Teachers : StudentOnlyRequest(u, i)

(* stage 3: the teacher does not own the class addressed by edit_class,
   delete_class, create_lesson or create_assignment *)
NotOwnerOfClassDenial(i) ==
    \E u \in Teachers :
        i \in Ids(classes) /\ ClassTeacher(i) # u /\ ClassRequest(u, i)

(* stage 3: the teacher does not own the class of the lesson, file,
   assignment, submission or question addressed, or of the page opened *)
NotOwnerOfTargetDenial(i) ==
    \E u \in Teachers :
        \/ /\ i \in Ids(classes) /\ classes[i].is_active
           /\ ClassTeacher(i) # u
           /\ class_detail(u, i)
        \/ /\ i \in Ids(lessons) /\ LessonTeacher(i) # u
           /\ \/ LessonRequest(u, i)
              \/ /\ lessons[i].is_published
                 /\ \E m \in Methods : lesson_detail(u, m, i, "x")
        \/ /\ i \in Ids(lesson_files) /\ FileTeacher(i) # u
           /\ delete_lesson_file(u, "POST", i)
        \/ /\ i \in Ids(assignments) /\ AssignmentTeacher(i) # u
           /\ \/ AssignmentRequest(u, i)
              \/ assignments[i].is_published /\ assignment_detail(u, i)
        \/ /\ i \in Ids(submissions) /\ SubmissionTeacher(i) # u
           /\ grade_submission(u, "POST", i, <<"1">>, "good")
        \/ /\ i \in Ids(questions) /\ QuestionTeacher(i) # u
           /\ answer_question(u, "POST", i, "x")

(* stage 4: the student is not actively enrolled in the class of the target *)
NotEnrolledDenial(i) ==
    \E u \in Students :
        \/ /\ i \in Ids(classes) /\ classes[i].is_active
           /\ ~ActivelyEnrolled(u, i)
           /\ class_detail(u, i)
        \/ /\ i \in Ids(lessons) /\ lessons[i].is_published
           /\ ~ActivelyEnrolled(u, lessons[i].class_lesson)
           /\ \E m \in Methods : lesson_detail(u, m, i, "x")
        \/ /\ i \in Ids(assignments) /\ assignments[i].is_published
           /\ ~ActivelyEnrolled(u, assignments[i].class_assignment)
           /\ \/ assignment_detail(u, i)
              \/ submit_assignment(u, "POST", i, GoodFile, 0)

(* C13 as stated: every denial by an access-control stage ends in a
   redirect to the dashboard carrying an error message, never in a 404/403
   response or an exception. *)
C13_DeniedToDashboard ==
    [][\A i \in TableIds :
          (\/ NotLoggedInDenial(i)
           \/ WrongRoleDenial(i)
           \/ NotOwnerOfClassDenial(i)
           \/ NotOwnerOfTargetDenial(i)
           \/ NotEnrolledDenial(i))
          => response' = Redirect("dashboard", "error")]_vars

(* C13 amended: a denial never ends in an exception and changes no
   record; a requester who is not logged in is redirected to the login
   page; a teacher who addresses a class of another teacher through
   edit_class, delete_class, create_lesson or create_assignment gets a 404
   response; every other denial (wrong role, teacher not owning the
   lesson, file, assignment, submission, question or page, student not
   actively enrolled) is a redirect to the dashboard with an error
   message. *)
C13_DeniedByStage ==
    [][\A i \in TableIds :
          /\ NotLoggedInDenial(i)
             => /\ response'.kind = "redirect"
                /\ response'.target = "login"
                /\ tables' = tables
          /\ NotOwnerOfClassDenial(i)
             => response' = Http404 /\ tables' = tables
          /\ (\/ WrongRoleDenial(i)
              \/ NotOwnerOfTargetDenial(i)
              \/ NotEnrolledDenial(i))
             => response' = Redirect("dashboard", "error") /\ tables' = tables]_vars

(* every kind of record is stored, the class is active, and a request got
   a 404 response: it addressed the class and came from the other teacher *)
C13_Witness ==
    /\ response = Http404
    /\ \A c \in 1..Len(classes) : classes[c] # NoRow /\ classes[c].is_active
    /\ Ids(classes) # {} /\ Ids(lessons) # {} /\ Ids(lesson_files) # {}
    /\ Ids(questions) # {} /\ Ids(assignments) # {} /\ Ids(submissions) # {}

(* C23: delete_class by the owning teacher is a soft delete: it sets the
   class's is_active to false and removes nothing; the class record, its
   class_code and all of its lessons, assignments, enrollments and
   submissions remain stored and unchanged. *)
C23_SoftDelete ==
    [][\A t \in Teachers, c \in Ids(classes) :
          (ClassTeacher(c) = t /\ delete_class(t, "POST", c))
          => /\ Len(classes') = Len(classes)
             /\ \A d \in 1..Len(classes) : d # c => classes'[d] = classes[d]
             /\ classes'[c] # NoRow
             /\ classes'[c].is_active = FALSE
             /\ classes'[c].class_code = classes[c].class_code
             /\ classes'[c].name = classes[c].name
             /\ classes'[c].teacher = classes[c].teacher
             /\ lessons' = lessons /\ lesson_files' = lesson_files
             /\ assignments' = assignments /\ enrollments' = enrollments
             /\ submissions' = submissions
             /\ questions' = questions /\ answers' = answers]_vars

(* a class with a lesson, an assignment, an enrollment and a submission
   has just been archived *)
C23_Witness ==
    /\ response = Redirect("dashboard", "success")
    /\ \E c \in Ids(classes) : ~classes[c].is_active
    /\ Ids(lessons) # {} /\ Ids(assignments) # {}
    /\ Ids(enrollments) # {} /\ Ids(submissions) # {}

(* C30: a GET request to delete_class, delete_lesson, delete_assignment
   or delete_lesson_file by the owning teacher only renders or redirects
   and leaves every record unchanged. *)
C30_GetDeletesNothing ==
    [][\A t \in Teachers :
          (\/ \E c \in Ids(classes) :
                 ClassTeacher(c) = t /\ delete_class(t, "GET", c)
           \/ \E l \in Ids(lessons) :
                 LessonTeacher(l) = t /\ delete_lesson(t, "GET", l)
           \/ \E a \in Ids(assignments) :
                 AssignmentTeacher(a) = t /\ delete_assignment(t, "GET", a)
           \/ \E f \in Ids(lesson_files) :
                 FileTeacher(f) = t /\ delete_lesson_file(t, "GET", f))
          => /\ tables' = tables
             /\ response'.kind \in {"render", "redirect"}]_vars

(* C27: once delete_class has archived a class no view sets is_active
   back to true, and from then on class_detail shows the class to nobody
   and join_class with its code enrols nobody. *)
C27_ArchiveIrreversible ==
    [][\A c \in Ids(classes) :
          ~classes[c].is_active
          => /\ classes'[c].is_active = FALSE
             /\ \A u \in Requesters :
                   class_detail(u, c)
                   => response' \in {Http404, Redirect("login", "none")}
             /\ \A u \in Requesters, raw \in SetupDraws :
                   (Upper(Strip(raw)) = classes[c].class_code
                    /\ join_class(u, "POST", raw))
                   => /\ enrollments' = enrollments
                      /\ response' # Redirect("class_detail", "success")
                      /\ response' # Redirect("class_detail", "warning")]_vars

(* a class with an enrolled student has been archived and a later
   join_class request has been turned away by the form *)
C27_Witness ==
    /\ response = RenderMsg("join_class", "form_error")
    /\ \E c \in Ids(classes) :
          /\ ~classes[c].is_active
          /\ \E e \in Ids(enrollments) : enrollments[e].class_enrolled = c

(* C28: archiving does not freeze the content of a class.  In an
   archived class a request of an actively enrolled student to
   submit_assignment stores a submission and one to lesson_detail stores a
   question, and the owning teacher's requests to create, edit and delete
   lessons and assignments and to grade a submission take effect. *)
C28_ArchivedContentLive ==
    [][\A c \in Ids(classes) :
          (~classes[c].is_active /\ classes[c].teacher = "t1")
          => /\ \A a \in Ids(assignments) :
                   (/\ assignments[a].class_assignment = c
                    /\ MaySubmit("s1", a)
                    /\ SubmissionsOf(a, "s1") = {}
                    /\ submit_assignment("s1", "POST", a, GoodFile, 0))
                   => /\ Len(submissions') = Len(submissions) + 1
                      /\ SubmissionsOf(a, "s1")' # {}
             /\ \A l \in Ids(lessons) :
                   (/\ lessons[l].class_lesson = c
                    /\ lessons[l].is_published
                    /\ ActiveEnrollment("s1", c)
                    /\ lesson_detail("s1", "POST", l, "x"))
                   => /\ Len(questions') = Len(questions) + 1
                      /\ questions'[Len(questions')].lesson = l
             /\ create_lesson("t1", "POST", c, "x", TRUE, <<GoodFile>>)
                => /\ Len(lessons') = Len(lessons) + 1
                   /\ lessons'[Len(lessons')].class_lesson = c
             /\ create_assignment("t1", "POST", c, "x", Some(1), Some(2),
                                   TRUE, TRUE)
                => /\ Len(assignments') = Len(assignments) + 1
                   /\ assignments'[Len(assignments')].class_assignment = c
             /\ \A l \in Ids(lessons) :
                   lessons[l].class_lesson = c
                   => /\ edit_lesson("t1", "POST", l, "y", TRUE, <<>>)
                         => lessons'[l].title = "y"
                      /\ delete_lesson("t1", "POST", l)
                         => lessons'[l] = NoRow
             /\ \A a \in Ids(assignments) :
                   assignments[a].class_assignment = c
                   => /\ edit_assignment("t1", "POST", a, "y", Some(1),
                                          Some(2), TRUE, TRUE)
                         => assignments'[a].title = "y"
                      /\ delete_assignment("t1", "POST", a)
                         => assignments'[a] = NoRow
             /\ \A sub \in Ids(submissions) :
                   (/\ assignments[submissions[sub].assignment]
                          .class_assignment = c
                    /\ grade_submission("t1", "POST", sub, <<"1">>, "good"))
                   => submissions'[sub].points = Some(1)]_vars

(* the latest request changed content of an archived class whose
   submission carries a grade *)
C28_Witness ==
    /\ response = Redirect("assignment_detail", "success")
    /\ \E c \in Ids(classes), sub \in Ids(submissions) :
          /\ ~classes[c].is_active
          /\ assignments[submissions[sub].assignment].class_assignment = c
          /\ submissions[sub].points = Some(1)

(* the student of enrollment e keeps being denied: no request of theirs
   changes the enrollment, join_class with the class's code stores nothing,
   and the pages of the class and submit_assignment turn them away *)
Turned == {Redirect("dashboard", "error"), Http404}

LapsedStaysOut(e) ==
    LET s == enrollments[e].student
        c == enrollments[e].class_enrolled
    IN  /\ (\A b \in BOOLEAN : ~admin_change_enrollment(e, b))
           => enrollments'[e] = enrollments[e]
        /\ \A m \in Methods, raw \in SetupDraws :
              (Upper(Strip(raw)) = classes[c].class_code
               /\ join_class(s, m, raw))
              => tables' = tables
        /\ class_detail(s, c) => response' \in Turned
        /\ \A m \in Methods, l \in Ids(lessons) :
              (lessons[l].class_lesson = c /\ lesson_detail(s, m, l, "x"))
              => tables' = tables /\ response' \in Turned
        /\ \A a \in Ids(assignments) :
              assignments[a].class_assignment = c
              => /\ assignment_detail(s, a) => response' \in Turned
                 /\ \A m \in Methods :
                       submit_assignment(s, m, a, GoodFile, 0)
                       => tables' = tables /\ response' \in Turned

(* C29: once an enrollment has is_active = false, no operation of its
   student restores access: join_class with the class's code reports the
   student as already enrolled and leaves the enrollment inactive, and
   class_detail, lesson_detail, assignment_detail and submit_assignment
   for that class keep denying the student. *)
C29_RejoinReportsEnrolled ==
    [][\A e \in Ids(enrollments) :
          ~enrollments[e].is_active
          => /\ LapsedStaysOut(e)
             /\ \A raw \in SetupDraws :
                   (/\ Upper(Strip(raw))
                          = classes[enrollments[e].class_enrolled].class_code
                    /\ join_class(enrollments[e].student, "POST", raw))
                   => response' = Redirect("class_detail", "warning")]_vars

(* C29 with the reply of join_class by the state of the class: "already
   enrolled" while the class is active, the form's error once the class is
   archived; in both cases the student stays out. *)
C29_LapsedStudentStaysOut ==
    [][\A e \in Ids(enrollments) :
          ~enrollments[e].is_active
          => /\ LapsedStaysOut(e)
             /\ \A raw \in SetupDraws :
                   (/\ Upper(Strip(raw))
                          = classes[enrollments[e].class_enrolled].class_code
                    /\ join_class(enrollments[e].student, "POST", raw))
                   => response' =
                         IF classes[enrollments[e].class_enrolled].is_active
                         THEN Redirect("class_detail", "warning")
                         ELSE RenderMsg("join_class", "form_error")]_vars

(* a student whose enrollment was switched off has asked to join again and
   was told they are already enrolled; the class has published content *)
C29_Witness ==
    /\ response = Redirect("class_detail", "warning")
    /\ \E e \in Ids(enrollments) : ~enrollments[e].is_active
    /\ \E l \in Ids(lessons) : lessons[l].is_published
    /\ \E a \in Ids(assignments) : assignments[a].is_published

(* the extension is one of the ten allow-listed ones, compared without
   regard to case, and the size is at most 10 MiB *)
Acceptable(f) ==
    /\ \E e \in valid_extensions :
          /\ Len(e) = Len(f.name[2])
          /\ \A i \in 1..Len(e) : LowerChar(f.name[2][i]) = e[i]
    /\ f.size <= 10 * 1024 * 1024

(* submit_assignment reaches its form for student u and assignment a *)
ReachesSubmissionForm(u, a) == MaySubmit(u, a) /\ SubmissionsOf(a, u) = {}

(* C25: an uploaded file is accepted by submit_assignment and by
   create_lesson and edit_lesson if and only if its extension, compared
   case-insensitively, is one of the ten allow-listed extensions and its
   size is at most 10 * 1024 * 1024 bytes; exactly 10 MiB is accepted and
   one byte more is rejected. *)
C25_AcceptedIffAllowed ==
    [][/\ \A a \in Ids(assignments), f \in UploadFiles :
            (ReachesSubmissionForm("s1", a)
             /\ submit_assignment("s1", "POST", a, f, 0))
            => (Len(submissions') = Len(submissions) + 1 <=> Acceptable(f))
       /\ \A c \in Ids(classes), f \in UploadFiles :
            create_lesson("t1", "POST", c, "x", TRUE, <<f>>)
            => (Len(lesson_files') = Len(lesson_files) + 1 <=> Acceptable(f))
       /\ \A l \in Ids(lessons), f \in UploadFiles :
            edit_lesson("t1", "POST", l, "y", TRUE, <<f>>)
            => (Len(lesson_files') = Len(lesson_files) + 1 <=> Acceptable(f))
      ]_vars

(* C25 with the empty file named: submit_assignment accepts a file if and
   only if it is acceptable and not empty; create_lesson and edit_lesson
   accept it if and only if it is acceptable. *)
C25_AcceptedIffAllowedAndNotEmpty ==
    [][/\ \A a \in Ids(assignments), f \in UploadFiles :
            (ReachesSubmissionForm("s1", a)
             /\ submit_assignment("s1", "POST", a, f, 0))
            => (Len(submissions') = Len(submissions) + 1
                <=> (Acceptable(f) /\ f.size > 0))
       /\ \A c \in Ids(classes), f \in UploadFiles :
            create_lesson("t1", "POST", c, "x", TRUE, <<f>>)
            => (Len(lesson_files') = Len(lesson_files) + 1 <=> Acceptable(f))
       /\ \A l \in Ids(lessons), f \in UploadFiles :
            edit_lesson("t1", "POST", l, "y", TRUE, <<f>>)
            => (Len(lesson_files') = Len(lesson_files) + 1 <=> Acceptable(f))
      ]_vars

(* a lesson file of exactly 10 MiB with an upper-case extension is stored
   and a submission has been accepted *)
C25_Witness ==
    /\ \E i \in Ids(lesson_files) :
          /\ lesson_files[i].file_size = 10 * 1024 * 1024
          /\ lesson_files[i].file_name[2] = <<".", "P", "n", "G">>
    /\ Ids(submissions) # {}

(* C26: create_lesson and edit_lesson are all-or-nothing with respect to
   attached files: if any one of the uploaded files fails the extension or
   size check, no lesson is created or modified and no LessonFile is
   stored, not even for the files that passed. *)
C26_AllOrNothing ==
    [][\/ tables' = tables
       \/ \A files \in FileLists :
             (\E i \in 1..Len(files) : ~Acceptable(files[i]))
             => /\ \A c \in Ids(classes) :
                      ~create_lesson("t1", "POST", c, "x", TRUE, files)
                /\ \A l \in Ids(lessons) :
                      ~edit_lesson("t1", "POST", l, "y", TRUE, files)]_vars

(* an edit of a stored lesson has been refused: the form is shown again
   and the lesson keeps its title and its one file *)
C26_Witness ==
    /\ response = Render("edit_lesson")
    /\ \E l \in Ids(lessons) : lessons[l].title = "x"
    /\ Len(lesson_files) = 1

(* every record that names a student names a user with role STUDENT, and
   every class owner and answer author has role TEACHER *)
RolesOfRecords ==
    /\ \A e \in Ids(enrollments) : role(enrollments[e].student) = "STUDENT"
    /\ \A sub \in Ids(submissions) : role(submissions[sub].student) = "STUDENT"
    /\ \A q \in Ids(questions) : role(questions[q].student) = "STUDENT"
    /\ \A c \in Ids(classes) : role(classes[c].teacher) = "TEACHER"
    /\ \A a \in Ids(answers) : role(answers[a].teacher) = "TEACHER"

(* C24: in every state reached through the registration and application
   views every user's role is TEACHER or STUDENT and no step changes the
   role of an existing user, so every enrollment, submission and question
   refers to a user with role STUDENT and every class owner and answer
   author has role TEACHER. *)
C24_RolesFixed ==
    /\ [](\A n \in DOMAIN users : users[n].role \in {"TEACHER", "STUDENT"})
    /\ []RolesOfRecords
    /\ [][\A n \in DOMAIN users :
            n \in DOMAIN users' /\ users'[n].role = users[n].role]_vars

(* the two new accounts have registered, one in each role, and each has a
   record of its own: a class with an answer, and an enrollment with a
   question and a submission *)
C24_Witness ==
    /\ NewNames \subseteq DOMAIN users
    /\ \E c \in Ids(classes) : classes[c].teacher \in NewNames
    /\ \E a \in Ids(answers) : answers[a].teacher \in NewNames
    /\ \E e \in Ids(enrollments) : enrollments[e].student \in NewNames
    /\ \E q \in Ids(questions) : questions[q].student \in NewNames
    /\ \E sub \in Ids(submissions) : submissions[sub].student \in NewNames

(* no two stored records share a key *)
UniqueKeys ==
    /\ \A e1, e2 \in Ids(enrollments) :
          (/\ enrollments[e1].student = enrollments[e2].student
           /\ enrollments[e1].class_enrolled = enrollments[e2].class_enrolled)
          => e1 = e2
    /\ \A s1, s2 \in Ids(submissions) :
          (/\ submissions[s1].assignment = submissions[s2].assignment
           /\ submissions[s1].student = submissions[s2].student)
          => s1 = s2
    /\ \A a1, a2 \in Ids(answers) :
          answers[a1].question = answers[a2].question => a1 = a2
    /\ \A c1, c2 \in Ids(classes) :
          classes[c1].class_code = classes[c2].class_code => c1 = c2

(* worker w is about to insert a record whose key is already stored *)
LostRace(w) ==
    \/ /\ in_flight[w].op = "join_class"
       /\ EnrollmentExists(in_flight[w].user, in_flight[w].target)
    \/ /\ in_flight[w].op = "submit_assignment"
       /\ SubmissionsOf(in_flight[w].target, in_flight[w].user) # {}
    \/ /\ in_flight[w].op = "answer_question"
       /\ AnswersTo(in_flight[w].target) # {}
    \/ /\ in_flight[w].op = "create_class" /\ in_flight[w].pc = "insert"
       /\ ClassCodeExists(in_flight[w].code)

(* C21: under any interleaving of concurrent requests no two enrollments
   share (student, class), no two submissions share (assignment, student),
   no two answers share a question and no two classes share a code; the
   request that loses the race between its test and its insert ends in a
   constraint violation and stores nothing. *)
C21_RacesKeepKeysUnique ==
    /\ []UniqueKeys
    /\ [][\A w \in Workers :
            (LostRace(w) /\ in_flight'[w] = Idle)
            => response' = ServerError /\ tables' = tables]_vars

(* a request has lost its race: the answer is a server error while the
   four keyed tables hold a record each and no request is in flight *)
C21_Witness ==
    /\ response = ServerError
    /\ \A w \in Workers : in_flight[w] = Idle
    /\ Ids(enrollments) # {} /\ Ids(submissions) # {}
    /\ Ids(answers) # {} /\ Len(classes) = 2

(* codes held by no stored class *)
FreeCodes ==
    {code \in SetupDraws :
        \A c \in Ids(classes) : classes[c].class_code # code}

(* C22: generate_class_code terminates, under fair random choice, as long
   as at least one code is held by no stored class; the code it returns is
   held by no stored class at the moment it returns; and when every code
   is in use it never returns. *)
C22_GenerateTerminates ==
    /\ \A w \in Workers :
          (in_flight[w].pc = "generate" /\ FreeCodes # {})
          ~> (in_flight[w].pc # "generate" \/ FreeCodes = {})
    /\ [][\A w \in Workers :
            (in_flight[w].pc = "generate" /\ in_flight'[w].pc # "generate")
            => /\ in_flight'[w].pc = "insert"
               /\ in_flight'[w].code \in FreeCodes
               /\ FreeCodes # {}]_vars
    /\ [][\A w \in Workers :
            (in_flight[w].pc = "generate" /\ FreeCodes = {})
            => in_flight'[w].pc = "generate"]_vars

(* every code is in use and a worker is turning in the loop *)
C22_Witness ==
    /\ FreeCodes = {}
    /\ \E w \in Workers : in_flight[w].pc = "generate"
    /\ Len(classes) = 2

=============================================================================
